---------------------------- MODULE Spec2Model ----------------------------
(***************************************************************************)
(* Model of the log viewer: the webview script (media/main.js), the host   *)
(* panel (src/LogViewerPanel.ts) with its debounced file watcher, and the  *)
(* two message channels between them.                                      *)
(*                                                                         *)
(* Text (file names, log lines, file contents) is modelled as sequences of *)
(* one-character strings, so that split, startsWith, toUpperCase and the   *)
(* regular expressions of the source are computed as the source computes   *)
(* them.  The empty JavaScript string '' is the empty sequence << >>.      *)
(***************************************************************************)
EXTENDS Integers, Sequences, FiniteSets, TLC

(***************************************************************************)
(* Generic sequence helpers (JavaScript Array / String primitives).        *)
(***************************************************************************)
Range(s) == { s[i] : i \in 1..Len(s) }

\* Array.prototype.includes / String equality on elements
Includes(s, x) == \E i \in 1..Len(s) : s[i] = x

\* Array.prototype.indexOf, 0 when absent (the source's -1), else 1-based
IndexOf(s, x) ==
    IF Includes(s, x) THEN CHOOSE i \in 1..Len(s) : s[i] = x /\ \A j \in 1..(i-1) : s[j] # x
    ELSE 0

\* Array.prototype.splice(idx, 1) with a 1-based index
RemoveAt(s, i) == SubSeq(s, 1, i - 1) \o SubSeq(s, i + 1, Len(s))

\* String.prototype.startsWith
StartsWith(s, p) == Len(p) <= Len(s) /\ SubSeq(s, 1, Len(p)) = p

\* s has the text p at (1-based) position i
MatchAt(s, i, p) == i >= 1 /\ i + Len(p) - 1 <= Len(s) /\ SubSeq(s, i, i + Len(p) - 1) = p

\* String.prototype.includes / RegExp.test of a literal
Contains(s, p) == \E i \in 1..(Len(s) + 1) : MatchAt(s, i, p)

\* String.prototype.split('\n'): always at least one element
RECURSIVE Split(_, _)
Split(s, sep) ==
    IF \A i \in 1..Len(s) : s[i] # sep THEN << s >>
    ELSE LET k == CHOOSE i \in 1..Len(s) : s[i] = sep /\ \A j \in 1..(i-1) : s[j] # sep
         IN  << SubSeq(s, 1, k - 1) >> \o Split(SubSeq(s, k + 1, Len(s)), sep)

\* Array.prototype.join(sep)
RECURSIVE Join(_, _)
Join(parts, sep) ==
    IF parts = << >> THEN << >>
    ELSE IF Len(parts) = 1 THEN parts[1]
         ELSE parts[1] \o << sep >> \o Join(Tail(parts), sep)

Min(a, b) == IF a <= b THEN a ELSE b

(***************************************************************************)
(* Characters.                                                             *)
(***************************************************************************)
Lower == <<"a", "b", "c", "d", "e", "f", "g", "h", "i", "j", "k", "l", "m",
           "n", "o", "p", "q", "r", "s", "t", "u", "v", "w", "x", "y", "z">>
UpperOf == <<"A", "B", "C", "D", "E", "F", "G", "H", "I", "J", "K", "L", "M",
             "N", "O", "P", "Q", "R", "S", "T", "U", "V", "W", "X", "Y", "Z">>

\* toUpperCase of one character
UpperChar(c) == IF Includes(Lower, c) THEN UpperOf[IndexOf(Lower, c)] ELSE c
\* String.prototype.toUpperCase
ToUpper(s) == [ i \in 1..Len(s) |-> UpperChar(s[i]) ]
\* toLowerCase of one character
LowerChar(c) == IF Includes(UpperOf, c) THEN Lower[IndexOf(UpperOf, c)] ELSE c
\* String.prototype.toLowerCase
ToLower(s) == [ i \in 1..Len(s) |-> LowerChar(s[i]) ]

\* the regular expression class \s, over the characters a log line can hold
IsSpace(c) == c \in {" ", "\t", "\r"}

NL == "\n"

(***************************************************************************)
(* Severity classification: getSeverityClass / mapLevelToClass.            *)
(***************************************************************************)
K_ERROR     == <<"E", "R", "R", "O", "R">>
K_ERR       == <<"E", "R", "R">>
K_FATAL     == <<"F", "A", "T", "A", "L">>
K_CRITICAL  == <<"C", "R", "I", "T", "I", "C", "A", "L">>
K_EXCEPTION == <<"E", "X", "C", "E", "P", "T", "I", "O", "N">>
K_WARN      == <<"W", "A", "R", "N">>
K_WARNING   == <<"W", "A", "R", "N", "I", "N", "G">>
K_INFO      == <<"I", "N", "F", "O">>
K_DEBUG     == <<"D", "E", "B", "U", "G">>
K_DBG       == <<"D", "B", "G">>
K_TRACE     == <<"T", "R", "A", "C", "E">>
K_TRC       == <<"T", "R", "C">>
K_VERBOSE   == <<"V", "E", "R", "B", "O", "S", "E">>
K_VERB      == <<"V", "E", "R", "B">>
K_VRB       == <<"V", "R", "B">>

\* the alternation of the two regular expressions, in the source's order
LevelKeywords ==
    << K_ERROR, K_ERR, K_FATAL, K_CRITICAL, K_EXCEPTION, K_WARN, K_WARNING,
       K_INFO, K_DEBUG, K_DBG, K_TRACE, K_TRC, K_VERBOSE, K_VERB, K_VRB >>

\* the severity classes; '' (no class) is the empty string
defaultSeverities ==
    << "log-error", "log-warn", "log-info", "log-debug", "log-trace", "log-verbose" >>

\* mapLevelToClass: a cascade of substring tests on the captured keyword
mapLevelToClass(level) ==
    IF \E k \in {K_ERROR, K_ERR, K_FATAL, K_CRITICAL, K_EXCEPTION} : Contains(level, k)
        THEN "log-error"
    ELSE IF \E k \in {K_WARN, K_WARNING} : Contains(level, k) THEN "log-warn"
    ELSE IF level = K_INFO THEN "log-info"
    ELSE IF \E k \in {K_DEBUG, K_DBG} : Contains(level, k) THEN "log-debug"
    ELSE IF \E k \in {K_TRACE, K_TRC} : Contains(level, k) THEN "log-trace"
    ELSE IF \E k \in {K_VERBOSE, K_VERB, K_VRB} : Contains(level, k) THEN "log-verbose"
    ELSE ""

\* first position >= i of u that is not whitespace (\s* is greedy)
RECURSIVE SkipSpace(_, _)
SkipSpaceNone(u, i) == i
SkipSpace(u, i) == IF i <= Len(u) /\ IsSpace(u[i]) THEN SkipSpace(u, i + 1) ELSE i

\* the rest of the expression from ks on: the keyword, \s*, the closing delimiter
ClosesAt(u, rest, close) == rest <= Len(u) /\ u[rest] = close
KeywordThenClose(u, ks, kw, close) ==
    MatchAt(u, ks, kw) /\ ClosesAt(u, SkipSpace(u, ks + Len(kw)), close)

\* the regular expression  open \s* (KEYWORDS) \s* close  matches u from position i
\* with the k-th keyword of the alternation
TokenAtWith(u, i, open, close, k) ==
    /\ i <= Len(u) /\ u[i] = open
    /\ KeywordThenClose(u, SkipSpace(u, i + 1), LevelKeywords[k], close)

TokenAt(u, i, open, close) ==
    \E k \in 1..Len(LevelKeywords) : TokenAtWith(u, i, open, close, k)

\* the leftmost position the expression matches from
FirstToken(u, open, close) ==
    CHOOSE p \in 1..Len(u) :
        TokenAt(u, p, open, close) /\ \A q \in 1..(p - 1) : ~TokenAt(u, q, open, close)

\* the first alternative that lets the whole expression match from position i
FirstKeyword(u, i, open, close) ==
    CHOOSE a \in 1..Len(LevelKeywords) :
        TokenAtWith(u, i, open, close, a)
        /\ \A b \in 1..(a - 1) : ~TokenAtWith(u, i, open, close, b)

\* String.prototype.match: the captured keyword of the leftmost match; << >> when
\* there is no match
TokenMatch(u, open, close) ==
    IF \E i \in 1..Len(u) : TokenAt(u, i, open, close)
    THEN LevelKeywords[FirstKeyword(u, FirstToken(u, open, close), open, close)]
    ELSE << >>

\* the two 'if (match)' blocks of getSeverityClass
classOfMatchesBracketFirst(pipeMatch, bracketMatch) ==
    IF bracketMatch # << >> THEN mapLevelToClass(bracketMatch)
    ELSE IF pipeMatch # << >> THEN mapLevelToClass(pipeMatch)
    ELSE ""
classOfMatches(pipeMatch, bracketMatch) ==
    IF pipeMatch # << >> THEN mapLevelToClass(pipeMatch)
    ELSE IF bracketMatch # << >> THEN mapLevelToClass(bracketMatch)
    ELSE ""

\* getSeverityClass: the pipe token first, then the bracket token
getSeverityClass(line) ==
    classOfMatches(TokenMatch(ToUpper(line), "|", "|"), TokenMatch(ToUpper(line), "[", "]"))

(***************************************************************************)
(* File-name patterns: _matchesFilePattern.                                *)
(***************************************************************************)
\* String.prototype.trim
RECURSIVE TrimLeft(_)
TrimLeft(s) == IF s # << >> /\ IsSpace(Head(s)) THEN TrimLeft(Tail(s)) ELSE s
RECURSIVE TrimRight(_)
TrimRight(s) ==
    IF s # << >> /\ IsSpace(s[Len(s)]) THEN TrimRight(SubSeq(s, 1, Len(s) - 1)) ELSE s
Trim(s) == TrimRight(TrimLeft(s))

\* The regular expression made of a pattern: '.' is replaced by '\.', '*' by
\* '.*' and '?' by '.'; every other character goes into the expression as it is,
\* so a '+' repeats the atom before it.  A term is an atom ("any" or a literal
\* character) with a quantifier.  (A '+' with nothing to repeat makes new RegExp
\* throw; such a pattern is left as it is here and is in no sample.)
RECURSIVE RegexTerms(_, _)
RegexTerms(pattern, terms) ==
    IF pattern = << >> THEN terms
    ELSE IF Head(pattern) = "*"
         THEN RegexTerms(Tail(pattern), Append(terms, [ atom |-> "any", q |-> "star" ]))
    ELSE IF Head(pattern) = "?"
         THEN RegexTerms(Tail(pattern), Append(terms, [ atom |-> "any", q |-> "one" ]))
    ELSE IF Head(pattern) = "+" /\ terms # << >> /\ terms[Len(terms)].q = "one"
         THEN RegexTerms(Tail(pattern),
                         [ terms EXCEPT ![Len(terms)] = [ @ EXCEPT !.q = "plus" ] ])
    ELSE RegexTerms(Tail(pattern), Append(terms, [ atom |-> Head(pattern), q |-> "one" ]))

\* one character against an atom, with the flag 'i'
AtomMatch(atom, c) == atom = "any" \/ UpperChar(c) = UpperChar(atom)

\* /^terms$/i.test(name)
RECURSIVE RegexTest(_, _)
RegexTest(terms, name) ==
    IF terms = << >> THEN name = << >>
    ELSE IF Head(terms).q = "star"
         THEN RegexTest(Tail(terms), name)
              \/ (name # << >> /\ AtomMatch(Head(terms).atom, Head(name))
                               /\ RegexTest(terms, Tail(name)))
    ELSE IF Head(terms).q = "plus"
         THEN /\ name # << >>
              /\ AtomMatch(Head(terms).atom, Head(name))
              /\ RegexTest(<< [ Head(terms) EXCEPT !.q = "star" ] >> \o Tail(terms),
                           Tail(name))
    ELSE /\ name # << >>
         /\ AtomMatch(Head(terms).atom, Head(name))
         /\ RegexTest(Tail(terms), Tail(name))

\* new RegExp('^' + regexPattern + '$', 'i').test(name)
GlobMatch(pattern, name) == RegexTest(RegexTerms(pattern, << >>), name)

\* patterns.split(',').map(p => p.trim()).filter(p => p)
patternList(patterns) ==
    LET parts   == Split(patterns, ",")
        trimmed == [ i \in 1..Len(parts) |-> Trim(parts[i]) ]
    IN  SelectSeq(trimmed, LAMBDA p : p # << >>)

matchesFilePattern(filename, patterns) ==
    \E i \in 1..Len(patternList(patterns)) : GlobMatch(patternList(patterns)[i], filename)

(***************************************************************************)
(* The bounded world: one workspace, the log directory with its root       *)
(* session and one session directory, a few file names and contents.       *)
(***************************************************************************)
ROOT == "__root__"
S1   == "s1"
Sessions == { ROOT, S1 }

LOG_A == <<"a", ".", "l", "o", "g">>
LOG_B == <<"b", ".", "l", "o", "g">>
TXT_N == <<"n", ".", "t", "x", "t">>
LogNames  == { LOG_A, LOG_B }
FileNames == LogNames \cup { TXT_N }

\* the configured logViewer.filePattern (its default)
filePattern == <<"*", ".", "l", "o", "g">>

\* file contents a writer can leave in a log file: L1\nL2\n, the same with L3
\* appended, a truncation, a divergence in the second line, the empty file and a
\* last line still being written
LINE_ERR == <<"[", "E", "R", "R", "]">>
LINE_AT  == <<"a", "t">>
LINE_INF == <<"|", "I", "N", "F", "O", "|">>
AllContents ==
    << LINE_ERR \o << NL >> \o LINE_AT \o << NL >>,
       LINE_ERR \o << NL >> \o LINE_AT \o << NL >> \o LINE_INF \o << NL >>,
       LINE_ERR,
       LINE_ERR \o << NL >> \o LINE_INF \o << NL >>,
       << >>,
       LINE_ERR \o << NL >> \o LINE_AT >>

\* how many of AllContents the file writers use
MaxContents == 4
Contents == { AllContents[i] : i \in 1..Min(MaxContents, Len(AllContents)) }

\* partial maps (JavaScript objects used as dictionaries)
EmptyMap == << >>
Has(m, k) == k \in DOMAIN m
Put(m, k, v) == [ x \in (DOMAIN m) \cup {k} |-> IF x = k THEN v ELSE m[x] ]
Del(m, k) == [ x \in (DOMAIN m) \ {k} |-> m[x] ]

(***************************************************************************)
(* State.                                                                  *)
(***************************************************************************)
VARIABLES
    \* ---- webview (media/main.js) ----
    currentSession,     \* '' or a session name
    activeLog,          \* << >> ('') or a log name
    pinnedLogs,         \* array of log names
    allLogs,            \* array of log names
    logContents,        \* { logName: content }
    logFilters,         \* { logName: { text, severities } }
    logLineCounts,      \* { logName: line count at the last render }
    tailMode,
    scrollTop,          \* logContent.scrollTop, in rows
    display,            \* logContent.innerHTML: an empty-state text or the rendered lines
    render,             \* the render instruction of the last setLogContent handled
    sidebarTabs,        \* the log tabs last drawn by renderSidebar
    sessionOptions,     \* the options of the session <select>
    sessionValue,       \* sessionSelect.value
    pickerOpen, pickerFilteredLogs, pickerSelectedIndex,
    filterTextInput,    \* filterTextInput.value
    severityButtons,    \* the data-severity of the severity buttons of class 'active'
    filterTimeout,      \* the text filter's 150 ms timeout is pending
    contentFrom,        \* history: the session each cached content was read from
    \* ---- channels (postMessage) ----
    v2h,                \* webview -> host, FIFO
    h2v,                \* host -> webview, FIFO
    \* ---- host (src/LogViewerPanel.ts) ----
    panelOpen,          \* LogViewerPanel.currentPanel is defined
    panels,             \* webview panels created and not disposed
    retryTimers,        \* pending 1000 ms timeouts of the root watcher's 'error' handler
    fileWatcher,        \* _fileWatcher is set
    rootWatcher,        \* _rootWatcher is set
    pendingFileChanges, \* _pendingFileChanges, in insertion order
    fileChangeTimer,    \* ms until _fileChangeTimer fires, NoTimer when none pending
    sessionRefreshTimer,\* ms until _sessionRefreshTimer fires, NoTimer when none pending
    autoRefresh,        \* logViewer.autoRefresh
    flushTimers,        \* pending timeouts whose callback is _flushFileChanges
    refreshTimers,      \* pending timeouts whose callback refreshes the sessions
    sinceLastChange,    \* history: ms since the last pattern-matching watcher event
    sinceLastEvent,     \* history: ms since the last watcher event of the log directory
    burstNames,         \* history: names of the matching events since the last flush
    \* ---- file system ----
    logDirExists,
    files,              \* files[session]: { fileName: content }
    fsFaults,           \* the fs calls that throw (access denied, I/O error)
    provided,           \* history: the last LogDataProvider call and what it gave
    \* ---- exploration budgets ----
    userOps, fsOps, watchOps

viewVars == << currentSession, activeLog, pinnedLogs, allLogs, logContents, logFilters,
               logLineCounts, tailMode, scrollTop, display, render, sidebarTabs,
               sessionOptions, sessionValue, pickerOpen, pickerFilteredLogs, pickerSelectedIndex,
               filterTextInput, severityButtons, filterTimeout, contentFrom >>
hostVars == << panelOpen, panels, retryTimers, fileWatcher, rootWatcher, pendingFileChanges, fileChangeTimer,
               sessionRefreshTimer, flushTimers, refreshTimers, autoRefresh,
               sinceLastChange, sinceLastEvent, burstNames >>
fsVars   == << logDirExists, files, fsFaults, provided >>
budgetVars == << userOps, fsOps, watchOps >>
vars == << viewVars, v2h, h2v, hostVars, fsVars, budgetVars >>

(***************************************************************************)
(* Webview: rendering.                                                     *)
(***************************************************************************)
\* the webview's state as one value, so that handlers can call each other
View ==
    [ currentSession |-> currentSession, activeLog |-> activeLog,
      pinnedLogs |-> pinnedLogs, allLogs |-> allLogs, logContents |-> logContents,
      logFilters |-> logFilters, logLineCounts |-> logLineCounts, tailMode |-> tailMode,
      scrollTop |-> scrollTop, display |-> display, render |-> render, sidebarTabs |-> sidebarTabs,
      sessionOptions |-> sessionOptions, sessionValue |-> sessionValue,
      pickerOpen |-> pickerOpen,
      pickerFilteredLogs |-> pickerFilteredLogs,
      pickerSelectedIndex |-> pickerSelectedIndex,
      filterTextInput |-> filterTextInput, severityButtons |-> severityButtons,
      filterTimeout |-> filterTimeout, contentFrom |-> contentFrom,
      out |-> << >> ]

EmptyState(text) == [ empty |-> text, lines |-> << >> ]
NoRender == [ kind |-> "none" ]

\* logContent.clientHeight, in rows
ViewportRows == 1
\* logContent.scrollHeight, in rows: one per rendered line, one for an empty state
scrollHeight(d) == IF d.lines = << >> THEN 1 ELSE Len(d.lines)
\* the largest scrollTop the element can have
maxScrollTop(d) ==
    IF scrollHeight(d) > ViewportRows THEN scrollHeight(d) - ViewportRows ELSE 0
\* the scrollTop setter: the value is clamped to what the content allows
setScrollTop(d, value) ==
    IF value < 0 THEN 0 ELSE Min(value, maxScrollTop(d))
\* the scroll position after a render of 'setLogContent': the end in tail mode,
\* else the position it had
scrollAfterRenderAtTop(v, position) == [ v EXCEPT !.scrollTop = 0 ]
scrollAfterRender(v, position) ==
    [ v EXCEPT !.scrollTop = setScrollTop(v.display, IF v.tailMode
                                                     THEN scrollHeight(v.display)
                                                     ELSE position) ]

\* getLogFilter: the filter of logName, created with the defaults when absent
DefaultFilterErrorsOnly == [ text |-> << >>, severities |-> << "log-error" >> ]
DefaultFilter == [ text |-> << >>, severities |-> defaultSeverities ]
WithLogFilter(filters, logName) ==
    IF Has(filters, logName) THEN filters ELSE Put(filters, logName, DefaultFilter)
getLogFilter(filters, logName) == WithLogFilter(filters, logName)[logName]

\* updateFilterUI: the input and the buttons show the filter of the active log
updateFilterUI(v) ==
    [ v EXCEPT !.logFilters = WithLogFilter(v.logFilters, v.activeLog),
               !.filterTextInput = getLogFilter(v.logFilters, v.activeLog).text,
               !.severityButtons = Range(getLogFilter(v.logFilters, v.activeLog).severities) ]

\* the filter test and the span of one line
isHiddenCaseSensitive(line, severityClass, filter) ==
    \/ severityClass # "" /\ ~Includes(filter.severities, severityClass)
    \/ filter.text # << >> /\ ~Contains(line, filter.text)
isHidden(line, severityClass, filter) ==
    \/ severityClass # "" /\ ~Includes(filter.severities, severityClass)
    \/ ToLower(filter.text) # << >> /\ ~Contains(ToLower(line), ToLower(filter.text))
formatLine(line, num, severityClass, filter) ==
    IF isHidden(line, severityClass, filter) THEN << >>
    ELSE << [ num |-> num, cls |-> severityClass, text |-> line ] >>

\* the line map shared by formatLogContent and formatNewLines: lines[i..] numbered
\* from startLineNum + i - 1, with lastSeverityClass carried along; own is the
\* class getSeverityClass gives line i
RECURSIVE FormatLines(_, _, _, _, _)
FormatLinesFromShownOnly(lines, i, startLineNum, lastSeverityClass, filter, own) ==
    formatLine(lines[i], startLineNum + i - 1,
               IF own = "" /\ lastSeverityClass # "" THEN lastSeverityClass ELSE own,
               filter)
    \o FormatLines(lines, i + 1, startLineNum,
                   IF own # "" /\ ~isHidden(lines[i], own, filter)
                   THEN own ELSE lastSeverityClass, filter)
FormatLinesFrom(lines, i, startLineNum, lastSeverityClass, filter, own) ==
    formatLine(lines[i], startLineNum + i - 1,
               IF own = "" /\ lastSeverityClass # "" THEN lastSeverityClass ELSE own,
               filter)
    \o FormatLines(lines, i + 1, startLineNum,
                   IF own # "" THEN own ELSE lastSeverityClass, filter)
FormatLines(lines, i, startLineNum, lastSeverityClass, filter) ==
    IF i > Len(lines) THEN << >>
    ELSE FormatLinesFrom(lines, i, startLineNum, lastSeverityClass, filter,
                         getSeverityClass(lines[i]))

\* formatLogContent: the new innerHTML of the log area
linesOrNoContent(filteredLines) ==
    IF filteredLines = << >> THEN EmptyState("No content")
    ELSE [ empty |-> "", lines |-> filteredLines ]
linesOrEmptyState(filteredLines) ==
    IF filteredLines = << >> THEN EmptyState("No matching log lines")
    ELSE [ empty |-> "", lines |-> filteredLines ]
formatLogContent(filter, content) ==
    IF content = << >> THEN EmptyState("No content")
    ELSE linesOrEmptyState(FormatLines(Split(content, NL), 1, 1, "", filter))

\* formatNewLines: the spans to append ('' when every line is filtered out)
formatNewLines(filter, content, startLineNum, inheritedSeverity) ==
    FormatLines(Split(content, NL), 1, startLineNum, inheritedSeverity, filter)

\* the class names that start with 'log-'
HasLogPrefix(cls) ==
    cls \in { "log-line", "log-error", "log-warn", "log-info", "log-debug",
              "log-trace", "log-verbose" }

\* className.split(' ') of a rendered span: 'log-line ' + severityClass
ClassTokens(span) == << "log-line", span.cls >>

\* getLastDisplayedSeverity: the first class of the last span that starts with 'log-'
getLastDisplayedSeverity(d) ==
    IF d.lines = << >> THEN ""
    ELSE LET classes == ClassTokens(d.lines[Len(d.lines)])
         IN  IF \E i \in 1..Len(classes) : HasLogPrefix(classes[i])
             THEN classes[CHOOSE i \in 1..Len(classes) :
                              HasLogPrefix(classes[i])
                              /\ \A j \in 1..(i - 1) : ~HasLogPrefix(classes[j])]
             ELSE ""

\* getLogsInVisualOrder
getLogsInVisualOrderUnfiltered(v) ==
    v.pinnedLogs \o SelectSeq(v.allLogs, LAMBDA log : ~Includes(v.pinnedLogs, log))
getLogsInVisualOrder(v) ==
    SelectSeq(v.pinnedLogs, LAMBDA log : Includes(v.allLogs, log))
    \o SelectSeq(v.allLogs, LAMBDA log : ~Includes(v.pinnedLogs, log))

\* renderSidebar: a tab per pinned log, then a tab per unpinned log of allLogs
renderSidebar(v) ==
    [ v EXCEPT !.sidebarTabs =
          v.pinnedLogs \o SelectSeq(v.allLogs, LAMBDA l : ~Includes(v.pinnedLogs, l)) ]

Post(v, msg) == [ v EXCEPT !.out = Append(v.out, msg) ]

\* a cached content that is truthy in JavaScript (present and not '')
Truthy(m, k) == Has(m, k) /\ m[k] # << >>

\* selectLog
selectLog(v, logName) ==
    LET v1 == updateFilterUI([ v EXCEPT !.activeLog = logName ])
        v2 == IF Truthy(v1.logContents, logName)
              THEN [ v1 EXCEPT !.display =
                         formatLogContent(getLogFilter(v1.logFilters, logName),
                                          v1.logContents[logName]) ]
              ELSE Post([ v1 EXCEPT !.display = EmptyState("Loading...") ],
                        [ command |-> "getLogContent", session |-> v1.currentSession,
                          logName |-> logName ])
    IN  renderSidebar(v2)

\* the re-render that ends the three filter handlers
refilter(v) ==
    IF Truthy(v.logContents, v.activeLog)
    THEN [ v EXCEPT !.display = formatLogContent(getLogFilter(v.logFilters, v.activeLog),
                                                 v.logContents[v.activeLog]) ]
    ELSE v

\* filterTextInput 'input': the typed value is in the input, the timeout is restarted
onFilterInput(v, value) == [ v EXCEPT !.filterTextInput = value, !.filterTimeout = TRUE ]

\* the timeout callback of the text filter
setFilterText(v, text) ==
    [ v EXCEPT !.logFilters = Put(v.logFilters, v.activeLog,
                                  [ getLogFilter(v.logFilters, v.activeLog) EXCEPT !.text = text ]) ]
onFilterTimeout(v) ==
    IF v.activeLog = << >> THEN [ v EXCEPT !.filterTimeout = FALSE ]
    ELSE refilter(setFilterText([ v EXCEPT !.filterTimeout = FALSE ], v.filterTextInput))

\* filterClearBtn 'click'
onFilterClear(v) ==
    IF v.activeLog = << >> THEN v
    ELSE refilter([ setFilterText(v, << >>) EXCEPT !.filterTextInput = << >> ])

\* a severity button 'click': the button toggles, the filter follows the button
toggleSeverity(severities, severity, active) ==
    IF active
    THEN IF ~Includes(severities, severity) THEN Append(severities, severity) ELSE severities
    ELSE IF Includes(severities, severity)
         THEN RemoveAt(severities, IndexOf(severities, severity))
         ELSE severities
setFilterSeverities(v, severity, active) ==
    [ v EXCEPT !.severityButtons = IF active THEN @ \cup { severity } ELSE @ \ { severity },
               !.logFilters =
                   Put(v.logFilters, v.activeLog,
                       [ getLogFilter(v.logFilters, v.activeLog) EXCEPT
                             !.severities = toggleSeverity(@, severity, active) ]) ]
onSeverityClick(v, severity) ==
    IF v.activeLog = << >> THEN v
    ELSE refilter(setFilterSeverities(v, severity, severity \notin v.severityButtons))

\* togglePin
togglePinAtFront(v, logName) ==
    LET idx == IndexOf(v.pinnedLogs, logName)
    IN  renderSidebar([ v EXCEPT !.pinnedLogs =
                            IF idx >= 1 THEN RemoveAt(v.pinnedLogs, idx)
                            ELSE << logName >> \o v.pinnedLogs ])
togglePin(v, logName) ==
    LET idx == IndexOf(v.pinnedLogs, logName)
    IN  renderSidebar([ v EXCEPT !.pinnedLogs =
                            IF idx >= 1 THEN RemoveAt(v.pinnedLogs, idx)
                            ELSE Append(v.pinnedLogs, logName) ])

(***************************************************************************)
(* Webview: user actions and message handlers, as functions of the state.  *)
(***************************************************************************)
\* sessionSelect 'change' listener
onSessionChange(v, session) ==
    Post([ v EXCEPT !.sessionValue = session,
                    !.currentSession = session,
                    !.activeLog = << >>,
                    !.pinnedLogs = << >>,
                    !.allLogs = << >>,
                    !.logContents = EmptyMap,
                    !.contentFrom = EmptyMap,
                    !.display = EmptyState("Loading logs...") ],
         [ command |-> "getLogsForSession", session |-> session ])

\* openQuickPicker / updatePickerList (the query is left empty)
updatePickerList(v) ==
    LET sortedLogs == getLogsInVisualOrder(v)
    IN  [ v EXCEPT !.pickerFilteredLogs = sortedLogs,
                   !.pickerSelectedIndex =
                       IF v.pickerSelectedIndex >= Len(sortedLogs)
                       THEN (IF Len(sortedLogs) - 1 > 0 THEN Len(sortedLogs) - 1 ELSE 0)
                       ELSE v.pickerSelectedIndex ]
openQuickPicker(v) ==
    [ updatePickerList([ v EXCEPT !.pickerSelectedIndex = 0 ]) EXCEPT !.pickerOpen = TRUE ]

\* quickPickerInput keydown ArrowDown
pickerArrowDown(v) ==
    updatePickerList([ v EXCEPT !.pickerSelectedIndex =
                           Min(v.pickerSelectedIndex + 1, Len(v.pickerFilteredLogs) - 1) ])

\* pickerSelectCurrent (pickerSelectedIndex is 0-based)
pickerSelectCurrent(v) ==
    IF Len(v.pickerFilteredLogs) > 0 /\ v.pickerSelectedIndex >= 0
    THEN [ selectLog(v, v.pickerFilteredLogs[v.pickerSelectedIndex + 1])
               EXCEPT !.pickerOpen = FALSE ]
    ELSE v

\* case 'setSessions'
onSetSessions(v, message) ==
    LET options == (IF message.hasRootLogs THEN << ROOT >> ELSE << >>) \o message.sessions
        v1 == [ v EXCEPT !.sessionOptions = options, !.sessionValue = "" ]
    IN  IF v.currentSession # ""
           /\ (Includes(message.sessions, v.currentSession)
               \/ (v.currentSession = ROOT /\ message.hasRootLogs))
        THEN [ v1 EXCEPT !.sessionValue = v.currentSession ]
        ELSE IF message.hasRootLogs
        THEN Post([ v1 EXCEPT !.sessionValue = ROOT, !.currentSession = ROOT ],
                  [ command |-> "getLogsForSession", session |-> ROOT ])
        ELSE IF Len(message.sessions) > 0
        THEN Post([ v1 EXCEPT !.sessionValue = message.sessions[1],
                              !.currentSession = message.sessions[1] ],
                  [ command |-> "getLogsForSession", session |-> message.sessions[1] ])
        ELSE v1

\* removedLogs.forEach: delete the content and the filter, unpin
RECURSIVE forgetLogs(_, _)
forgetLogs(v, removedLogs) ==
    IF removedLogs = << >> THEN v
    ELSE LET log      == Head(removedLogs)
             pinIndex == IndexOf(v.pinnedLogs, log)
         IN  forgetLogs([ v EXCEPT !.logContents = Del(v.logContents, log),
                                   !.contentFrom = Del(v.contentFrom, log),
                                   !.logFilters  = Del(v.logFilters, log),
                                   !.pinnedLogs  = IF pinIndex >= 1
                                                   THEN RemoveAt(v.pinnedLogs, pinIndex)
                                                   ELSE v.pinnedLogs ],
                        Tail(removedLogs))

\* newLogs.forEach: request the content
RECURSIVE requestLogs(_, _)
requestLogs(v, newLogs) ==
    IF newLogs = << >> THEN v
    ELSE requestLogs(Post(v, [ command |-> "getLogContent", session |-> v.currentSession,
                               logName |-> Head(newLogs) ]),
                     Tail(newLogs))

\* allLogs.filter(log => !previousLogs.includes(log))
addedLogsAll(previousLogs, logs) == logs
addedLogs(previousLogs, logs) == SelectSeq(logs, LAMBDA log : ~Includes(previousLogs, log))

\* allLogs[0]
firstLogIsLast(logs) == logs[Len(logs)]
firstLog(logs) == logs[1]

\* case 'setSessionLogs'
onSetSessionLogs(v, message) ==
    LET previousLogs == v.allLogs
        v1          == [ v EXCEPT !.allLogs = message.logs ]
        newLogs     == addedLogs(previousLogs, v1.allLogs)
        removedLogs == SelectSeq(previousLogs, LAMBDA log : ~Includes(v1.allLogs, log))
        v2          == requestLogs(forgetLogs(v1, removedLogs), newLogs)
        v3          == IF Len(v2.allLogs) > 0
                          /\ (v2.activeLog = << >> \/ ~Includes(v2.allLogs, v2.activeLog))
                       THEN selectLog(v2, firstLog(v2.allLogs))
                       ELSE IF Len(v2.allLogs) = 0
                       THEN [ v2 EXCEPT !.activeLog = << >>,
                                        !.display = EmptyState("No logs in this session") ]
                       ELSE v2
    IN  renderSidebar(v3)

\* isAppendOnly && prevLineCount > 0
isAppendOnlyNoGrowthTest(prevContent, newContent, prevLineCount) ==
    /\ prevContent # << >>
    /\ StartsWith(newContent, prevContent)
isAppendOnly(prevContent, newContent, prevLineCount) ==
    /\ prevContent # << >>
    /\ StartsWith(newContent, prevContent)
    /\ Len(Split(newContent, NL)) > prevLineCount
takesAppendBranch(prevContent, newContent, prevLineCount) ==
    isAppendOnly(prevContent, newContent, prevLineCount) /\ prevLineCount > 0

\* newLines.slice(prevLineCount - 1): the 1-based position of the first line kept
regionStartSkipsBoundary(prevLineCount) == prevLineCount + 1
regionStart(prevLineCount) == prevLineCount

\* the incremental branch of 'setLogContent'
appendRender(v, logName, newContent, prevLineCount) ==
    LET newLines          == Split(newContent, NL)
        region            == SubSeq(newLines, regionStart(prevLineCount), Len(newLines))
        appendContent     == Join(region, NL)
        inheritedSeverity == getLastDisplayedSeverity(v.display)
        filters           == WithLogFilter(v.logFilters, v.activeLog)
        newHtml           == formatNewLines(filters[v.activeLog], appendContent,
                                            prevLineCount, inheritedSeverity)
    IN  scrollAfterRender(
            [ v EXCEPT !.logFilters = filters,
                       !.display = IF newHtml # << >>
                                   THEN [ empty |-> "", lines |-> v.display.lines \o newHtml ]
                                   ELSE v.display,
                       !.render = [ kind |-> "append", lines |-> Split(appendContent, NL),
                                    start |-> prevLineCount, carry |-> inheritedSeverity ] ],
            v.scrollTop)

\* the full-refresh branch of 'setLogContent'
fullRender(v, logName, newContent) ==
    LET filters == IF newContent = << >> THEN v.logFilters
                   ELSE WithLogFilter(v.logFilters, v.activeLog)
    IN  scrollAfterRender(
            [ v EXCEPT !.logFilters = filters,
                       !.display = IF newContent = << >> THEN EmptyState("No content")
                                   ELSE formatLogContent(filters[v.activeLog], newContent),
                       !.render = [ kind |-> "full", content |-> newContent ] ],
            v.scrollTop)

\* the line count recorded after a render of the active log
recordLineCount(counts, logName, newLineCount) == Put(counts, logName, newLineCount)

\* case 'setLogContent'
onSetLogContent(v, message) ==
    LET prevContent == IF Has(v.logContents, message.logName)
                       THEN v.logContents[message.logName] ELSE << >>
        newContent  == message.content
        v1 == [ v EXCEPT !.logContents = Put(v.logContents, message.logName, newContent),
                         !.contentFrom = Put(v.contentFrom, message.logName,
                                             message.readFrom),
                         !.render = NoRender ]
    IN  IF v1.activeLog = message.logName
        THEN LET prevLineCount == IF Has(v1.logLineCounts, message.logName)
                                  THEN v1.logLineCounts[message.logName] ELSE 0
                 newLineCount  == Len(Split(newContent, NL))
                 v2 == IF takesAppendBranch(prevContent, newContent, prevLineCount)
                       THEN appendRender(v1, message.logName, newContent, prevLineCount)
                       ELSE fullRender(v1, message.logName, newContent)
             IN  [ v2 EXCEPT !.logLineCounts =
                       recordLineCount(v2.logLineCounts, message.logName, newLineCount) ]
        ELSE v1

\* case 'filesChanged'
onFilesChangedAnyBatch(v, message) ==
    IF v.activeLog # << >>
    THEN Post(v, [ command |-> "getLogContent", session |-> v.currentSession,
                   logName |-> v.activeLog ])
    ELSE v
onFilesChanged(v, message) ==
    IF v.activeLog # << >> /\ Includes(message.filenames, v.activeLog)
    THEN Post(v, [ command |-> "getLogContent", session |-> v.currentSession,
                   logName |-> v.activeLog ])
    ELSE v

\* case 'resetState'
onResetStateKeepsFilters(v) ==
    renderSidebar(updateFilterUI(
        [ v EXCEPT !.currentSession = "",
                   !.activeLog = << >>,
                   !.pinnedLogs = << >>,
                   !.allLogs = << >>,
                   !.logContents = EmptyMap,
                   !.contentFrom = EmptyMap,
                   !.display = EmptyState("Select a log from the sidebar") ]))
onResetState(v) ==
    renderSidebar(updateFilterUI(
        [ v EXCEPT !.currentSession = "",
                   !.activeLog = << >>,
                   !.pinnedLogs = << >>,
                   !.allLogs = << >>,
                   !.logContents = EmptyMap,
                   !.contentFrom = EmptyMap,
                   !.logFilters = EmptyMap,
                   !.display = EmptyState("Select a log from the sidebar") ]))

\* case 'updateSettings'
onUpdateSettings(v, message) == [ v EXCEPT !.tailMode = message.tailMode ]

\* case 'refreshAllLogs'
onRefreshAllLogs(v) == requestLogs(v, v.allLogs)

\* case 'refreshCurrentSession'
onRefreshCurrentSession(v) ==
    IF v.currentSession # ""
    THEN Post(v, [ command |-> "getLogsForSession", session |-> v.currentSession ])
    ELSE v

\* window 'message' listener: the switch on message.command
onMessage(v, message) ==
    CASE message.command = "setSessions"           -> onSetSessions(v, message)
      [] message.command = "setSessionLogs"        -> onSetSessionLogs(v, message)
      [] message.command = "setLogContent"         -> onSetLogContent(v, message)
      [] message.command = "filesChanged"          -> onFilesChanged(v, message)
      [] message.command = "resetState"            -> onResetState(v)
      [] message.command = "updateSettings"        -> onUpdateSettings(v, message)
      [] message.command = "refreshAllLogs"        -> onRefreshAllLogs(v)
      [] message.command = "refreshCurrentSession" -> onRefreshCurrentSession(v)
      [] OTHER -> v

(***************************************************************************)
(* Host: directory listing and file reading.                               *)
(***************************************************************************)
\* a.localeCompare(b) < 0 for names over lower-case letters and '.'
CharRank(c) == IF Includes(Lower, c) THEN IndexOf(Lower, c) ELSE 0
RECURSIVE NameLess(_, _)
NameLess(a, b) ==
    IF a = << >> THEN b # << >>
    ELSE IF b = << >> THEN FALSE
    ELSE IF CharRank(Head(a)) # CharRank(Head(b)) THEN CharRank(Head(a)) < CharRank(Head(b))
    ELSE NameLess(Tail(a), Tail(b))

\* Array.prototype.sort((a, b) => a.localeCompare(b)) of a set of distinct names
RECURSIVE SortNames(_)
SortNames(S) ==
    IF S = {} THEN << >>
    ELSE LET m == CHOOSE x \in S : \A y \in S \ {x} : NameLess(x, y)
         IN  << m >> \o SortNames(S \ {m})

\* the session directories of the log directory, newest first
sessionDirs == IF logDirExists THEN << S1 >> ELSE << >>

\* fs.existsSync(sessionDir)
sessionDirExists(session) == logDirExists /\ session \in Sessions

\* _sendSessions: the message posted
sendSessions ==
    IF ~logDirExists
    THEN [ command |-> "setSessions", sessions |-> << >>, hasRootLogs |-> FALSE ]
    ELSE [ command |-> "setSessions", sessions |-> sessionDirs,
           hasRootLogs |-> \E f \in DOMAIN files[ROOT] : matchesFilePattern(f, filePattern) ]

\* _sendLogsForSession: the message posted
sendLogsForSession(session) ==
    IF ~sessionDirExists(session)
    THEN [ command |-> "setSessionLogs", logs |-> << >>, session |-> session ]
    ELSE [ command |-> "setSessionLogs",
           logs |-> SortNames({ f \in DOMAIN files[session] :
                                    matchesFilePattern(f, filePattern) }),
           session |-> session ]

\* fs.existsSync(logPath)
logFileExists(session, logName) ==
    sessionDirExists(session) /\ logName \in DOMAIN files[session]

\* _sendLogContent: the messages posted (none when the file is missing); readFrom
\* is history information, the real message carries content and logName only
sendLogContentOrEmpty(session, logName) ==
    << [ command |-> "setLogContent",
         content |-> IF logFileExists(session, logName) THEN files[session][logName]
                     ELSE << >>,
         logName |-> logName, readFrom |-> session ] >>
sendLogContent(session, logName) ==
    IF logFileExists(session, logName)
    THEN << [ command |-> "setLogContent", content |-> files[session][logName],
              logName |-> logName, readFrom |-> session ] >>
    ELSE << >>

\* onDidReceiveMessage: the messages posted in answer to one webview message
hostReply(message) ==
    CASE message.command = "getSessions" ->
             << [ command |-> "updateSettings", tailMode |-> FALSE ], sendSessions >>
      [] message.command = "getLogsForSession" -> << sendLogsForSession(message.session) >>
      [] message.command = "getLogContent" ->
             sendLogContent(message.session, message.logName)
      [] OTHER -> << >>

(***************************************************************************)
(* LogDataProvider (src/LogDataProvider.ts) over a file system whose calls *)
(* can throw.  A call's outcome is a value or an exception.                *)
(***************************************************************************)
Raise == [ raised |-> TRUE, value |-> << >> ]
Return(value) == [ raised |-> FALSE, value |-> value ]
\* try { body } catch { return fallback }
TryCatch(body, fallback) == IF body.raised THEN Return(fallback) ELSE body

\* the failing fs calls: readdirSync, readFileSync, and statSync of one entry
Fault(call, name) == [ call |-> call, name |-> name ]
FaultKinds ==
    { Fault("readdir", << >>), Fault("readFile", << >>),
      Fault("stat", LOG_A), Fault("stat", LOG_B) }

\* the entries of a session's directory: its files, and in the log directory
\* itself the session directories
DirName(session) == << "s", "1" >>
Entries(session, fls) ==
    { [ name |-> n, isFile |-> TRUE ] : n \in DOMAIN fls[session] }
    \cup (IF session = ROOT
          THEN { [ name |-> DirName(s), isFile |-> FALSE ] : s \in Sessions \ { ROOT } }
          ELSE {})
readdirSync(session, fls, faults) ==
    IF Fault("readdir", << >>) \in faults THEN Raise ELSE Return(Entries(session, fls))
statSync(entry, faults) ==
    IF Fault("stat", entry.name) \in faults THEN Raise ELSE Return(entry)
readFileSync(session, name, fls, faults) ==
    IF Fault("readFile", << >>) \in faults THEN Raise ELSE Return(fls[session][name])

\* names in descending localeCompare order
ReverseSeq(s) == [ i \in 1..Len(s) |-> s[Len(s) + 1 - i] ]

NoSessions == [ sessions |-> << >>, hasRootLogs |-> FALSE ]
sessionInfo(entries, pattern) ==
    [ sessions |-> ReverseSeq(SortNames({ e.name : e \in { x \in entries : ~x.isFile } })),
      hasRootLogs |-> \E e \in entries : e.isFile /\ matchesFilePattern(e.name, pattern) ]
\* LogDataProvider.getSessions
getSessionsBody(listing, pattern) ==
    IF listing.raised THEN Raise ELSE Return(sessionInfo(listing.value, pattern))
getSessions(dirExists, fls, faults, pattern) ==
    IF ~dirExists THEN Return(NoSessions)
    ELSE TryCatch(getSessionsBody(readdirSync(ROOT, fls, faults), pattern), NoSessions)

\* the filter callback of getLogs: a throwing stat is caught and gives false
keepsEntryUncaught(entry, faults, pattern) ==
    IF statSync(entry, faults).raised THEN Raise
    ELSE Return(entry.isFile /\ matchesFilePattern(entry.name, pattern))
keepsEntry(entry, faults, pattern) ==
    TryCatch(IF statSync(entry, faults).raised THEN Raise
             ELSE Return(entry.isFile /\ matchesFilePattern(entry.name, pattern)),
             FALSE)
\* LogDataProvider.getLogs
getLogsBody(listing, faults, pattern) ==
    IF listing.raised THEN Raise
    ELSE IF \E e \in listing.value : keepsEntry(e, faults, pattern).raised THEN Raise
    ELSE Return(SortNames({ e.name : e \in { x \in listing.value :
                                                keepsEntry(x, faults, pattern).value } }))
getLogs(session, dirExists, fls, faults, pattern) ==
    IF ~(dirExists /\ session \in Sessions) THEN Return(<< >>)
    ELSE TryCatch(getLogsBody(readdirSync(session, fls, faults), faults, pattern), << >>)

\* null, or a file's text
Null == [ isNull |-> TRUE, text |-> << >> ]
Text(content) == [ isNull |-> FALSE, text |-> content ]
\* LogDataProvider.getLogContent, stripAnsi false
getLogContentBody(reading) == IF reading.raised THEN Raise ELSE Return(Text(reading.value))
getLogContent(session, name, dirExists, fls, faults) ==
    IF ~(dirExists /\ session \in Sessions /\ name \in DOMAIN fls[session])
    THEN Return(Null)
    ELSE TryCatch(getLogContentBody(readFileSync(session, name, fls, faults)), Null)

\* no LogDataProvider call was made
NoCall == [ op |-> "none" ]

(***************************************************************************)
(* Host: watcher and debounce timers.  Time is counted in milliseconds and *)
(* advances in steps of Quantum, never past a pending timer.               *)
(***************************************************************************)
DEBOUNCE_DELAY == 150
\* time steps per debounce delay
TicksPerDelay == 2
Quantum == DEBOUNCE_DELAY \div TicksPerDelay
NoTimer == -1

\* _pendingFileChanges.add(logName)
addPendingAsList(pending, logName) == Append(pending, logName)
addPending(pending, logName) ==
    IF Includes(pending, logName) THEN pending ELSE Append(pending, logName)

\* if (timer) clearTimeout(timer); timer = setTimeout(...): the pending timeouts of
\* that callback afterwards; clearTimeout cancels the timeout of the handle when
\* it has not fired yet
scheduleWithoutClear(pendingTimers, timer) == pendingTimers + 1
clearThenSchedule(pendingTimers, timer) ==
    (IF timer # NoTimer THEN pendingTimers - 1 ELSE pendingTimers) + 1
\* clearTimeout(timer) of dispose
clearTimer(pendingTimers, timer) ==
    IF timer # NoTimer THEN pendingTimers - 1 ELSE pendingTimers

\* the delay _scheduleFileChangeFlush arms
fileChangeDelaySlow == 3 * DEBOUNCE_DELAY
fileChangeDelay == DEBOUNCE_DELAY
\* the delay _scheduleSessionRefresh arms
sessionRefreshDelayOnce == DEBOUNCE_DELAY
sessionRefreshDelay == DEBOUNCE_DELAY * 2

\* _setupFileWatcher: which watcher is active afterwards
setupFileWatcherNoFallback(enabled) ==
    /\ fileWatcher' = enabled
    /\ rootWatcher' = FALSE
setupFileWatcher(enabled) ==
    /\ fileWatcher' = (enabled /\ logDirExists)
    /\ rootWatcher' = (enabled /\ ~logDirExists)

(***************************************************************************)
(* Bounds of the exploration.                                              *)
(***************************************************************************)
\* capacity of each channel
MaxChan == 4
\* user actions (clicks, keys, settings changes) in one run
MaxUserOps == 2
\* file-system changes in one run
MaxFsOps == 1
\* raw watcher events in one run
MaxWatchOps == 3

(***************************************************************************)
(* Initial state: the panel has just been created over a log directory     *)
(* that holds two root logs and one session with one log.                  *)
(***************************************************************************)
InitFiles ==
    [ s \in Sessions |->
        IF s = ROOT THEN [ f \in { LOG_A, LOG_B } |->
                             IF f = LOG_A THEN AllContents[1] ELSE AllContents[3] ]
        ELSE [ f \in { LOG_A } |-> AllContents[2] ] ]

InitOver(dirExists, initialFiles) ==
    /\ currentSession = ""
    /\ activeLog = << >>
    /\ pinnedLogs = << >>
    /\ allLogs = << >>
    /\ logContents = EmptyMap
    /\ logFilters = EmptyMap
    /\ logLineCounts = EmptyMap
    /\ tailMode = FALSE
    /\ scrollTop = 0
    /\ display = EmptyState("Select a log from the sidebar")
    /\ render = NoRender
    /\ sidebarTabs = << >>
    /\ sessionOptions = << >>
    /\ sessionValue = ""
    /\ pickerOpen = FALSE
    /\ pickerFilteredLogs = << >>
    /\ pickerSelectedIndex = 0
    /\ filterTextInput = << >>
    /\ severityButtons = Range(defaultSeverities)
    /\ filterTimeout = FALSE
    /\ contentFrom = EmptyMap
    /\ v2h = << [ command |-> "getSessions" ] >>
    /\ h2v = << >>
    /\ panelOpen = TRUE
    /\ panels = 1
    /\ retryTimers = 0
    /\ fileWatcher = dirExists
    /\ rootWatcher = ~dirExists
    /\ pendingFileChanges = << >>
    /\ fileChangeTimer = NoTimer
    /\ sessionRefreshTimer = NoTimer
    /\ autoRefresh = TRUE
    /\ flushTimers = 0
    /\ refreshTimers = 0
    /\ sinceLastChange = 0
    /\ sinceLastEvent = 0
    /\ burstNames = {}
    /\ logDirExists = dirExists
    /\ files = initialFiles
    /\ fsFaults = {}
    /\ provided = NoCall
    /\ userOps = 0
    /\ fsOps = 0
    /\ watchOps = 0

\* the panel created over an existing log directory
InitWith(initialFiles) == InitOver(TRUE, initialFiles)

Init == InitWith(InitFiles)

\* the same log directory with an empty b.log
InitFilesEmptyLog ==
    [ InitFiles EXCEPT ![ROOT] = [ f \in { LOG_A, LOG_B } |->
                                     IF f = LOG_A THEN AllContents[1] ELSE << >> ] ]
InitRegistry == InitWith(InitFilesEmptyLog)

(***************************************************************************)
(* Sample log lines for the severity classifier: one token in each shape,  *)
(* letter case and interior spacing, with and without text around it; two  *)
(* tokens in one line; and lines that carry no closed token.               *)
(***************************************************************************)
SP == << " " >>
T_MSG == <<"m", "s", "g">>
KeywordTexts ==
    Range(LevelKeywords)
    \cup { <<"e", "r", "r", "o", "r">>, <<"I", "n", "f", "o">>, <<"w", "A", "r", "N">> }
Shapes == { << "|", "|" >>, << "[", "]" >> }
Paddings == { << >>, SP }
TokenOf(shape, left, keyword, right) ==
    << shape[1] >> \o left \o keyword \o right \o << shape[2] >>
SampleTokens ==
    { TokenOf(shape, left, keyword, right) :
          shape \in Shapes, left \in Paddings, keyword \in KeywordTexts, right \in Paddings }
\* one token per shape and alias group
GroupKeywords == { K_ERR, K_WARNING, K_INFO, K_DBG, K_TRACE, K_VERB }
GroupTokens ==
    { TokenOf(shape, << >>, keyword, << >>) : shape \in Shapes, keyword \in GroupKeywords }
OneTokenLines ==
    { before \o token \o after :
          before \in { << >>, <<"x">> \o SP }, token \in SampleTokens,
          after \in { << >>, SP \o T_MSG } }
TwoTokenLines == { first \o SP \o second : first \in GroupTokens, second \in GroupTokens }
\* level=KEYWORD msg
KeyValueLine(keyword) ==
    <<"l", "e", "v", "e", "l", "=">> \o keyword \o SP \o T_MSG
KeyValueLines == { KeyValueLine(keyword) : keyword \in { K_ERROR, K_ERR, K_WARN, K_INFO, K_DEBUG } }
NoTokenLines ==
    { keyword \o SP \o T_MSG : keyword \in KeywordTexts }
    \cup { << "[" >> \o keyword \o SP \o T_MSG : keyword \in GroupKeywords }
    \cup { << "|" >> \o keyword \o SP \o T_MSG : keyword \in GroupKeywords }
    \cup { keyword \o << "]" >> \o SP \o T_MSG : keyword \in GroupKeywords }
    \cup { << "[" >> \o keyword \o << "|" >> : keyword \in GroupKeywords }
    \cup { << "[" >> \o T_MSG \o << "]" >>, << "|" >> \o T_MSG \o << "|" >>,
           << "[", "E", "R", "R", "O", "]" >>, << "[", "]" >>, T_MSG }
ClassifyLines == OneTokenLines \cup TwoTokenLines \cup KeyValueLines \cup NoTokenLines

(***************************************************************************)
(* Sample contents for the filters: an error with two lines of stack trace *)
(* under it; lines of two severities with unclassified lines before and    *)
(* after them.                                                             *)
(***************************************************************************)
LINES_STACK ==
    <<
        << "[", "E", "R", "R", "O", "R", "]", " ", "b", "o", "o", "m" >>,
        << " ", " ", "a", "t", " ", "f", "r", "a", "m", "e", " ", "1" >>,
        << " ", " ", "a", "t", " ", "f", "r", "a", "m", "e", " ", "2" >>
    >>
LINES_MIXED ==
    <<
        << "u", "p" >>,
        << "[", "E", "R", "R", "]", " ", "x" >>,
        << "a", "t", " ", "y" >>,
        << "|", "I", "N", "F", "O", "|" >>,
        << "A", "T", " ", "z" >>
    >>
FilterContents == { Join(LINES_STACK, NL), Join(LINES_MIXED, NL) }
\* what the user types into the text filter
FilterTexts == { << >>, <<"A", "T">> }

\* a log directory whose only log holds one line
OneLineFiles(line) ==
    [ s \in Sessions |-> IF s = ROOT THEN [ f \in { LOG_A } |-> line ] ELSE EmptyMap ]
InitClassify == \E line \in ClassifyLines : InitWith(OneLineFiles(line))
InitFilter == \E content \in FilterContents : InitWith(OneLineFiles(content))

\* one log in each session: an error line in the log directory, nothing in the
\* session directory
InitFilesRender ==
    [ s \in Sessions |-> [ f \in { LOG_A } |-> IF s = ROOT THEN AllContents[3] ELSE << >> ] ]
InitRender == InitWith(InitFilesRender)

\* the panel created with or without a log directory in the workspace
InitWatch ==
    \E dirExists \in BOOLEAN :
        InitOver(dirExists, IF dirExists THEN InitFiles ELSE [ s \in Sessions |-> EmptyMap ])

(***************************************************************************)
(* Actions.                                                                *)
(***************************************************************************)
\* the webview state after a handler, and the messages it posted
SetView(v) ==
    /\ currentSession' = v.currentSession
    /\ activeLog' = v.activeLog
    /\ pinnedLogs' = v.pinnedLogs
    /\ allLogs' = v.allLogs
    /\ logContents' = v.logContents
    /\ logFilters' = v.logFilters
    /\ logLineCounts' = v.logLineCounts
    /\ tailMode' = v.tailMode
    /\ scrollTop' = setScrollTop(v.display, v.scrollTop)
    /\ display' = v.display
    /\ render' = v.render
    /\ sidebarTabs' = v.sidebarTabs
    /\ sessionOptions' = v.sessionOptions
    /\ sessionValue' = v.sessionValue
    /\ pickerOpen' = v.pickerOpen
    /\ pickerFilteredLogs' = v.pickerFilteredLogs
    /\ pickerSelectedIndex' = v.pickerSelectedIndex
    /\ filterTextInput' = v.filterTextInput
    /\ severityButtons' = v.severityButtons
    /\ filterTimeout' = v.filterTimeout
    /\ contentFrom' = v.contentFrom

ApplyView(v) ==
    /\ Len(v2h) + Len(v.out) <= MaxChan
    /\ v2h' = v2h \o v.out
    /\ SetView(v)

\* the webview of a new panel: the state main.js starts in
NewView ==
    [ currentSession |-> "", activeLog |-> << >>, pinnedLogs |-> << >>,
      allLogs |-> << >>, logContents |-> EmptyMap, logFilters |-> EmptyMap,
      logLineCounts |-> EmptyMap, tailMode |-> FALSE, scrollTop |-> 0,
      display |-> EmptyState("Select a log from the sidebar"), render |-> NoRender,
      sidebarTabs |-> << >>, sessionOptions |-> << >>, sessionValue |-> "",
      pickerOpen |-> FALSE, pickerFilteredLogs |-> << >>, pickerSelectedIndex |-> 0,
      filterTextInput |-> << >>, severityButtons |-> Range(defaultSeverities),
      filterTimeout |-> FALSE, contentFrom |-> EmptyMap, out |-> << >> ]

\* createOrShow: reveals the panel there is, else creates the panel, its webview
\* and its watcher; the timeouts of a disposed panel are no longer followed
createPanelAlways(open) == TRUE
createPanel(open) == ~open
CreateOrShow ==
    /\ userOps < MaxUserOps
    /\ userOps' = userOps + 1
    /\ IF createPanel(panelOpen)
       THEN /\ panelOpen' = TRUE
            /\ panels' = panels + 1
            /\ SetView(NewView)
            /\ v2h' = << [ command |-> "getSessions" ] >>
            /\ h2v' = << >>
            /\ setupFileWatcher(autoRefresh)
            /\ pendingFileChanges' = << >>
            /\ fileChangeTimer' = NoTimer
            /\ sessionRefreshTimer' = NoTimer
            /\ flushTimers' = 0
            /\ refreshTimers' = 0
            /\ retryTimers' = 0
            /\ sinceLastChange' = 0
            /\ sinceLastEvent' = 0
            /\ burstNames' = {}
            /\ UNCHANGED autoRefresh
       ELSE UNCHANGED << viewVars, v2h, h2v, hostVars >>
    /\ UNCHANGED << fsVars, fsOps, watchOps >>

UserAct(v) ==
    /\ panelOpen
    /\ userOps < MaxUserOps
    /\ userOps' = userOps + 1
    /\ ApplyView(v)
    /\ UNCHANGED << h2v, hostVars, fsVars, fsOps, watchOps >>

\* the user picks another session in the drop-down
UserSessionChange ==
    \E s \in Range(sessionOptions) :
        /\ s # sessionValue
        /\ UserAct(onSessionChange(View, s))

\* the user clicks a log tab of the sidebar
UserTabClick ==
    \E n \in Range(sidebarTabs) : UserAct(selectLog(View, n))

\* the user clicks the pin button of a log tab
UserPinClick ==
    \E n \in Range(sidebarTabs) : UserAct(togglePin(View, n))

\* Alt+P
UserAltP ==
    /\ activeLog # << >>
    /\ UserAct(togglePin(View, activeLog))

\* Ctrl+P
UserOpenQuickPicker ==
    /\ ~pickerOpen
    /\ UserAct(openQuickPicker(View))

\* ArrowDown in the quick picker
UserPickerArrowDown ==
    /\ pickerOpen
    /\ UserAct(pickerArrowDown(View))

\* Enter in the quick picker
UserPickerEnter ==
    /\ pickerOpen
    /\ UserAct(pickerSelectCurrent(View))

\* an event of the filter bar
FilterAct(v) ==
    /\ panelOpen
    /\ ApplyView(v)
    /\ UNCHANGED << h2v, hostVars, fsVars, budgetVars >>

\* the user edits the text filter
UserFilterInput ==
    \E value \in FilterTexts :
        /\ value # filterTextInput
        /\ UserAct(onFilterInput(View, value))

\* 150 ms have passed since the last edit of the text filter
FilterTimeoutFire ==
    /\ filterTimeout
    /\ FilterAct(onFilterTimeout(View))

\* the user clicks the clear button of the text filter, which is hidden while
\* the filter of the active log has no text
UserFilterClear ==
    /\ Has(logFilters, activeLog)
    /\ logFilters[activeLog].text # << >>
    /\ FilterAct(onFilterClear(View))

\* the user clicks a severity button: a click that switches a severity off, and
\* (within the budget of the user) a click that switches one on again
UserSeverityClickOn(severity) ==
    IF severity \in severityButtons
    THEN FilterAct(onSeverityClick(View, severity))
    ELSE UserAct(onSeverityClick(View, severity))
UserSeverityClick == \E severity \in Range(defaultSeverities) : UserSeverityClickOn(severity)

\* keydown on the log content: ArrowUp, ArrowDown, Home, End
ScrollRows == 1
ScrollKeys == { "ArrowUp", "ArrowDown", "Home", "End" }
onScrollKey(v, key) ==
    [ v EXCEPT !.scrollTop =
        setScrollTop(v.display,
                     CASE key = "ArrowUp"   -> v.scrollTop - ScrollRows
                       [] key = "ArrowDown" -> v.scrollTop + ScrollRows
                       [] key = "Home"      -> 0
                       [] key = "End"       -> scrollHeight(v.display)) ]

\* the user scrolls the log content with the keyboard
UserScroll ==
    \E key \in ScrollKeys :
        /\ panelOpen
        /\ ApplyView(onScrollKey(View, key))
        /\ UNCHANGED << h2v, hostVars, fsVars, budgetVars >>

\* the webview handles the next message of the host
ViewReceive ==
    /\ panelOpen
    /\ h2v # << >>
    /\ h2v' = Tail(h2v)
    /\ ApplyView(onMessage(View, Head(h2v)))
    /\ UNCHANGED << hostVars, fsVars, budgetVars >>

\* the host handles the next message of the webview
HostReceive ==
    /\ panelOpen
    /\ v2h # << >>
    /\ Len(h2v) + Len(hostReply(Head(v2h))) <= MaxChan
    /\ v2h' = Tail(v2h)
    /\ h2v' = h2v \o hostReply(Head(v2h))
    /\ UNCHANGED << viewVars, hostVars, fsVars, budgetVars >>

\* fs.watch callback of the log directory watcher
WatchEventFor(filename) ==
    /\ panelOpen /\ fileWatcher
    /\ watchOps < MaxWatchOps
    /\ watchOps' = watchOps + 1
    /\ IF ~logDirExists
       THEN /\ setupFileWatcher(autoRefresh)
            /\ Len(h2v) < MaxChan
            /\ h2v' = Append(h2v, sendSessions)
            /\ UNCHANGED << pendingFileChanges, fileChangeTimer, sessionRefreshTimer,
                            flushTimers, refreshTimers, sinceLastChange, sinceLastEvent,
                            burstNames >>
       ELSE /\ IF matchesFilePattern(filename, filePattern)
               THEN /\ pendingFileChanges' = addPending(pendingFileChanges, filename)
                    /\ flushTimers' = clearThenSchedule(flushTimers, fileChangeTimer)
                    /\ fileChangeTimer' = fileChangeDelay
                    /\ sinceLastChange' = 0
                    /\ burstNames' = burstNames \cup { filename }
               ELSE UNCHANGED << pendingFileChanges, fileChangeTimer, flushTimers,
                                 sinceLastChange, burstNames >>
            /\ refreshTimers' = clearThenSchedule(refreshTimers, sessionRefreshTimer)
            /\ sessionRefreshTimer' = sessionRefreshDelay
            /\ sinceLastEvent' = 0
            /\ UNCHANGED << fileWatcher, rootWatcher, h2v >>
    /\ UNCHANGED << viewVars, v2h, panelOpen, panels, retryTimers, autoRefresh, fsVars, userOps, fsOps >>

WatchEvent == \E filename \in FileNames : WatchEventFor(filename)

\* 'error' event of the log directory watcher
WatcherError ==
    /\ panelOpen /\ fileWatcher
    /\ watchOps < MaxWatchOps
    /\ watchOps' = watchOps + 1
    /\ setupFileWatcher(autoRefresh)
    /\ Len(h2v) < MaxChan
    /\ h2v' = Append(h2v, sendSessions)
    /\ UNCHANGED << viewVars, v2h, panelOpen, panels, retryTimers, pendingFileChanges, fileChangeTimer,
                    sessionRefreshTimer, flushTimers, refreshTimers, autoRefresh,
                    sinceLastChange, sinceLastEvent, burstNames,
                    fsVars, userOps, fsOps >>

\* fs.watch callback of the workspace root watcher, for the log directory's name
RootWatchEvent ==
    /\ panelOpen /\ rootWatcher
    /\ watchOps < MaxWatchOps
    /\ watchOps' = watchOps + 1
    /\ IF logDirExists
       THEN /\ setupFileWatcher(autoRefresh)
            /\ Len(h2v) < MaxChan
            /\ h2v' = Append(h2v, sendSessions)
       ELSE UNCHANGED << fileWatcher, rootWatcher, h2v >>
    /\ UNCHANGED << viewVars, v2h, panelOpen, panels, retryTimers, pendingFileChanges, fileChangeTimer,
                    sessionRefreshTimer, flushTimers, refreshTimers, autoRefresh,
                    sinceLastChange, sinceLastEvent, burstNames,
                    fsVars, userOps, fsOps >>

\* _flushFileChanges: the messages posted
flushFileChangesDropped(pending) == << >>
flushFileChanges(pending) ==
    IF Len(pending) = 0 THEN << >>
    ELSE << [ command |-> "filesChanged", filenames |-> pending ] >>

\* _pendingFileChanges after _flushFileChanges
pendingAfterFlush(pending) == << >>

\* the _fileChangeTimer callback
FileChangeTimerFire ==
    /\ panelOpen
    /\ fileChangeTimer = 0
    /\ Len(h2v) + Len(flushFileChanges(pendingFileChanges)) <= MaxChan
    /\ h2v' = h2v \o flushFileChanges(pendingFileChanges)
    /\ pendingFileChanges' = pendingAfterFlush(pendingFileChanges)
    /\ burstNames' = IF Len(pendingFileChanges) = 0 THEN burstNames ELSE {}
    /\ fileChangeTimer' = NoTimer
    /\ flushTimers' = flushTimers - 1
    /\ UNCHANGED << viewVars, v2h, panelOpen, panels, retryTimers, fileWatcher, rootWatcher,
                    sessionRefreshTimer, refreshTimers, autoRefresh, sinceLastChange,
                    sinceLastEvent, fsVars, budgetVars >>

\* the _sessionRefreshTimer callback
SessionRefreshTimerFire ==
    /\ panelOpen
    /\ sessionRefreshTimer = 0
    /\ Len(h2v) + 2 <= MaxChan
    /\ h2v' = h2v \o << sendSessions, [ command |-> "refreshCurrentSession" ] >>
    /\ sessionRefreshTimer' = NoTimer
    /\ refreshTimers' = refreshTimers - 1
    /\ UNCHANGED << viewVars, v2h, panelOpen, panels, retryTimers, fileWatcher, rootWatcher,
                    pendingFileChanges, fileChangeTimer, flushTimers, autoRefresh,
                    sinceLastChange, sinceLastEvent, burstNames, fsVars, budgetVars >>

\* a timer's remaining time after dt milliseconds
Elapse(timer, dt) == IF timer = NoTimer THEN NoTimer ELSE timer - dt

\* time passes, up to the next pending timer
Tick ==
    LET armed == { x \in { fileChangeTimer, sessionRefreshTimer } : x # NoTimer }
        dt    == CHOOSE d \in { Quantum } \cup armed :
                     \A e \in { Quantum } \cup armed : d <= e
    IN  /\ panelOpen
        /\ armed # {}
        /\ dt > 0
        /\ fileChangeTimer' = Elapse(fileChangeTimer, dt)
        /\ sessionRefreshTimer' = Elapse(sessionRefreshTimer, dt)
        /\ sinceLastChange' = Min(sinceLastChange + dt, sessionRefreshDelay)
        /\ sinceLastEvent' = Min(sinceLastEvent + dt, sessionRefreshDelay)
        /\ UNCHANGED << viewVars, v2h, h2v, panelOpen, panels, retryTimers, fileWatcher, rootWatcher,
                        pendingFileChanges, flushTimers, refreshTimers, autoRefresh,
                        burstNames, fsVars, budgetVars >>

\* 'error' event of the workspace root watcher: a retry in 1000 ms
RootWatcherError ==
    /\ panelOpen /\ rootWatcher
    /\ watchOps < MaxWatchOps
    /\ watchOps' = watchOps + 1
    /\ retryTimers' = retryTimers + 1
    /\ UNCHANGED << viewVars, v2h, h2v, panelOpen, panels, fileWatcher, rootWatcher,
                    pendingFileChanges, fileChangeTimer, sessionRefreshTimer, flushTimers,
                    refreshTimers, autoRefresh, sinceLastChange, sinceLastEvent,
                    burstNames, fsVars, userOps, fsOps >>

\* the retry timeout's callback: _setupFileWatcher; dispose does not clear it
WatcherRetryFire ==
    /\ retryTimers > 0
    /\ retryTimers' = retryTimers - 1
    /\ setupFileWatcher(autoRefresh)
    /\ UNCHANGED << viewVars, v2h, h2v, panelOpen, panels, pendingFileChanges,
                    fileChangeTimer, sessionRefreshTimer, flushTimers, refreshTimers,
                    autoRefresh, sinceLastChange, sinceLastEvent, burstNames,
                    fsVars, budgetVars >>

\* onDidChangeConfiguration: logViewer.autoRefresh was toggled
ConfigAutoRefresh ==
    /\ panelOpen
    /\ userOps < MaxUserOps
    /\ userOps' = userOps + 1
    /\ autoRefresh' = ~autoRefresh
    /\ setupFileWatcher(~autoRefresh)
    /\ IF ~autoRefresh
       THEN /\ Len(h2v) < MaxChan
            /\ h2v' = Append(h2v, [ command |-> "refreshAllLogs" ])
       ELSE UNCHANGED h2v
    /\ UNCHANGED << viewVars, v2h, panelOpen, panels, retryTimers, pendingFileChanges, fileChangeTimer,
                    sessionRefreshTimer, flushTimers, refreshTimers, sinceLastChange,
                    sinceLastEvent, burstNames, fsVars, fsOps, watchOps >>

\* onDidChangeConfiguration: logViewer.logDirectory or logViewer.filePattern changed
ConfigLogDirectory ==
    /\ panelOpen
    /\ userOps < MaxUserOps
    /\ userOps' = userOps + 1
    /\ setupFileWatcher(autoRefresh)
    /\ Len(h2v) + 2 <= MaxChan
    /\ h2v' = h2v \o << [ command |-> "resetState" ], sendSessions >>
    /\ UNCHANGED << viewVars, v2h, panelOpen, panels, retryTimers, pendingFileChanges, fileChangeTimer,
                    sessionRefreshTimer, flushTimers, refreshTimers, autoRefresh,
                    sinceLastChange, sinceLastEvent, burstNames,
                    fsVars, fsOps, watchOps >>

\* dispose
Dispose ==
    /\ panelOpen
    /\ panelOpen' = FALSE
    /\ panels' = panels - 1
    /\ flushTimers' = clearTimer(flushTimers, fileChangeTimer)
    /\ refreshTimers' = clearTimer(refreshTimers, sessionRefreshTimer)
    /\ fileChangeTimer' = NoTimer
    /\ sessionRefreshTimer' = NoTimer
    /\ fileWatcher' = FALSE
    /\ rootWatcher' = FALSE
    /\ UNCHANGED << viewVars, v2h, h2v, retryTimers, pendingFileChanges, autoRefresh,
                    sinceLastChange, sinceLastEvent, burstNames, fsVars, budgetVars >>

\* an fs call starts to fail
FsFault ==
    \E f \in FaultKinds :
        /\ f \notin fsFaults
        /\ fsFaults' = fsFaults \cup { f }
        /\ UNCHANGED << viewVars, v2h, h2v, hostVars, logDirExists, files, provided,
                        budgetVars >>

\* a caller uses the LogDataProvider
ProviderCall ==
    \E op \in { "getSessions", "getLogs", "getLogContent" },
       session \in Sessions, name \in FileNames :
        /\ provided' =
               [ op |-> op, session |-> session, name |-> name,
                 result |->
                     CASE op = "getSessions" ->
                              getSessions(logDirExists, files, fsFaults, filePattern)
                       [] op = "getLogs" ->
                              getLogs(session, logDirExists, files, fsFaults, filePattern)
                       [] op = "getLogContent" ->
                              getLogContent(session, name, logDirExists, files, fsFaults) ]
        /\ provided' # provided
        /\ UNCHANGED << viewVars, v2h, h2v, hostVars, logDirExists, files, fsFaults,
                        budgetVars >>

\* file names and pattern lists for matchesFilePattern: the ones of the unit tests,
\* a name without its dot, and a pattern with a '+'
PatternNames ==
    { << "a", "p", "p", ".", "l", "o", "g" >>,
      << "a", "p", "p", ".", "L", "O", "G" >>,
      << "a", "p", "p", ".", "l", "o", "g", ".", "b", "a", "k" >>,
      << "a", "p", "p", "1", ".", "l", "o", "g" >>,
      << "a", "p", "p", "1", "2", ".", "l", "o", "g" >>,
      << "r", "e", "a", "d", "m", "e", ".", "t", "x", "t" >>,
      << "a", "p", "p", ".", "j", "s", "o", "n" >>,
      << "a", "p", "p", "l", "o", "g" >>,
      << "a", "+", ".", "l", "o", "g" >>,
      << "a", "a", ".", "l", "o", "g" >>,
      << >> }
PatternLists ==
    { << "*", ".", "l", "o", "g" >>,
      << "a", "p", "p", "?", ".", "l", "o", "g" >>,
      << "*", ".", "l", "o", "g", ",", " ", "*", ".", "t", "x", "t" >>,
      << " ", " ", "*", ".", "l", "o", "g", " ", " ", ",", " ", " ", "*", ".", "t", "x", "t", " ", " " >>,
      << "*", ".", "l", "o", "g", ",", ",", " ", "*", ".", "t", "x", "t", ",", " " >>,
      << >>,
      << " ", ",", " " >>,
      << "a", "p", "p", ".", "l", "o", "g" >>,
      << "a", "+", ".", "l", "o", "g" >>,
      << "*" >> }

\* a caller matches a file name against a pattern list
PatternCall ==
    \E name \in PatternNames, patterns \in PatternLists :
        /\ provided' = [ op |-> "matchesFilePattern", name |-> name, patterns |-> patterns,
                         result |-> matchesFilePattern(name, patterns) ]
        /\ provided' # provided
        /\ UNCHANGED << viewVars, v2h, h2v, hostVars, logDirExists, files, fsFaults,
                        budgetVars >>

FsAct ==
    /\ panelOpen
    /\ fsOps < MaxFsOps
    /\ fsOps' = fsOps + 1
    /\ UNCHANGED << viewVars, v2h, h2v, hostVars, userOps, watchOps >>

\* a writer creates, appends to, truncates or replaces a log file
WriteFileTo(s, n) ==
    \E c \in Contents :
        /\ logDirExists
        /\ ~(Has(files[s], n) /\ files[s][n] = c)
        /\ files' = [ files EXCEPT ![s] = Put(files[s], n, c) ]
        /\ UNCHANGED << logDirExists, fsFaults, provided >>
        /\ FsAct
WriteFile == \E s \in Sessions, n \in LogNames : WriteFileTo(s, n)

\* a log file is removed
DeleteFile ==
    \E s \in Sessions, n \in LogNames :
        /\ logDirExists
        /\ Has(files[s], n)
        /\ files' = [ files EXCEPT ![s] = Del(files[s], n) ]
        /\ UNCHANGED << logDirExists, fsFaults, provided >>
        /\ FsAct

\* the log directory is removed with everything in it
DeleteLogDir ==
    /\ logDirExists
    /\ logDirExists' = FALSE
    /\ files' = [ s \in Sessions |-> EmptyMap ]
    /\ UNCHANGED << fsFaults, provided >>
    /\ FsAct

\* the log directory is created again, empty
CreateLogDir ==
    /\ ~logDirExists
    /\ logDirExists' = TRUE
    /\ UNCHANGED << files, fsFaults, provided >>
    /\ FsAct

NextSystem ==
    \/ UserSessionChange
    \/ UserTabClick
    \/ UserPinClick
    \/ UserAltP
    \/ UserOpenQuickPicker
    \/ UserPickerArrowDown
    \/ UserPickerEnter
    \/ UserFilterInput
    \/ FilterTimeoutFire
    \/ UserFilterClear
    \/ UserSeverityClick
    \/ UserScroll
    \/ ViewReceive
    \/ HostReceive
    \/ WatchEvent
    \/ WatcherError
    \/ RootWatchEvent
    \/ FileChangeTimerFire
    \/ SessionRefreshTimerFire
    \/ Tick
    \/ ConfigAutoRefresh
    \/ ConfigLogDirectory
    \/ CreateOrShow
    \/ RootWatcherError
    \/ WatcherRetryFire
    \/ Dispose
    \/ FsFault
    \/ ProviderCall
    \/ PatternCall
    \/ WriteFile
    \/ DeleteFile
    \/ DeleteLogDir
    \/ CreateLogDir

SpecSystem == Init /\ [][NextSystem]_vars

(***************************************************************************)
(* Specifications over parts of the environment.  SpecSystem above is the  *)
(* whole system; the ones below leave part of the environment quiet.       *)
(***************************************************************************)
\* the webview, the host's message handlers, the user, the settings and the file
\* system, with the file watcher silent
Next ==
    \/ UserSessionChange
    \/ UserTabClick
    \/ UserPinClick
    \/ UserAltP
    \/ UserOpenQuickPicker
    \/ UserPickerArrowDown
    \/ UserPickerEnter
    \/ ViewReceive
    \/ HostReceive
    \/ ConfigAutoRefresh
    \/ ConfigLogDirectory
    \/ WriteFile
    \/ DeleteFile

Spec == Init /\ [][Next]_vars

\* log files that change while the user moves between sessions
NextSync ==
    \/ UserSessionChange
    \/ ViewReceive
    \/ HostReceive
    \/ WriteFile

SpecSync == Init /\ [][NextSync]_vars

\* the log directory watcher and the two debounce timers over unchanged files
NextDebounce ==
    \/ WatchEvent
    \/ FileChangeTimerFire
    \/ SessionRefreshTimerFire
    \/ Tick
    \/ ViewReceive
    \/ HostReceive
    \/ Dispose

SpecDebounce == Init /\ [][NextDebounce]_vars

\* events for one log file and for a file that is no log, with the event loop of
\* the host running: time passes and a due timeout is called
NextRefresh ==
    \/ WatchEventFor(LOG_A)
    \/ WatchEventFor(TXT_N)
    \/ FileChangeTimerFire
    \/ SessionRefreshTimerFire
    \/ Tick
    \/ ViewReceive
    \/ HostReceive

SpecRefresh ==
    /\ Init /\ [][NextRefresh]_vars
    /\ WF_vars(Tick)
    /\ WF_vars(FileChangeTimerFire)
    /\ WF_vars(SessionRefreshTimerFire)

\* one session whose listing is refreshed after watcher events for a file that
\* is not a log, while a log file is removed
NextRegistry ==
    \/ ViewReceive
    \/ HostReceive
    \/ DeleteFile
    \/ WatchEventFor(TXT_N)
    \/ SessionRefreshTimerFire
    \/ Tick

SpecRegistry == InitRegistry /\ [][NextRegistry]_vars

\* the user working in the sidebar and the quick picker while the files stay as
\* they are
NextPins ==
    \/ UserSessionChange
    \/ UserTabClick
    \/ UserPinClick
    \/ UserAltP
    \/ UserOpenQuickPicker
    \/ UserPickerArrowDown
    \/ UserPickerEnter
    \/ ViewReceive
    \/ HostReceive

SpecPins == Init /\ [][NextPins]_vars

\* the panel opened over a log of one line: the line is read, classified and shown
NextClassify ==
    \/ ViewReceive
    \/ HostReceive

SpecClassify == InitClassify /\ [][NextClassify]_vars

\* the panel opened over one log, and the user at the filter bar
NextFilter ==
    \/ ViewReceive
    \/ HostReceive
    \/ UserFilterInput
    \/ FilterTimeoutFire
    \/ UserFilterClear
    \/ UserSeverityClick

SpecFilter == InitFilter /\ [][NextFilter]_vars

\* the active log is written to and read again while the user switches the
\* session and the error button
NextRender ==
    \/ UserSessionChange
    \/ UserSeverityClickOn("log-error")
    \/ ViewReceive
    \/ HostReceive
    \/ WriteFileTo(ROOT, LOG_A)

SpecRender == InitRender /\ [][NextRender]_vars

\* the log directory is removed or created under the watchers
NextWatch ==
    \/ WatchEventFor(TXT_N)
    \/ WatcherError
    \/ RootWatchEvent
    \/ DeleteLogDir
    \/ CreateLogDir
    \/ SessionRefreshTimerFire
    \/ Tick
    \/ ViewReceive
    \/ HostReceive

SpecWatch == InitWatch /\ [][NextWatch]_vars

\* the LogDataProvider over a log directory that loses files and whose calls fail
InitFilesProvider ==
    [ s \in Sessions |->
        IF s = ROOT THEN [ f \in FileNames |-> AllContents[3] ]
        ELSE [ f \in { LOG_A } |-> AllContents[1] ] ]
InitProvider == InitWith(InitFilesProvider)

NextProvider ==
    \/ ProviderCall
    \/ FsFault
    \/ DeleteFile
    \/ DeleteLogDir

SpecProvider == InitProvider /\ [][NextProvider]_vars

\* matchesFilePattern over the sample names and pattern lists
NextPattern == PatternCall

SpecPattern == Init /\ [][NextPattern]_vars

\* the panel is opened, closed and opened again
NextPanel ==
    \/ CreateOrShow
    \/ Dispose
    \/ WatchEventFor(LOG_A)
    \/ FileChangeTimerFire
    \/ Tick
    \/ ViewReceive
    \/ HostReceive

SpecPanel == Init /\ [][NextPanel]_vars

\* the only log is rewritten while the user scrolls it
InitFilesScroll ==
    [ s \in Sessions |-> IF s = ROOT THEN [ f \in { LOG_A } |-> AllContents[1] ]
                         ELSE EmptyMap ]
InitScroll == InitWith(InitFilesScroll)

NextScroll ==
    \/ UserScroll
    \/ UserSeverityClickOn("log-error")
    \/ WriteFileTo(ROOT, LOG_A)
    \/ WatchEventFor(LOG_A)
    \/ FileChangeTimerFire
    \/ Tick
    \/ ViewReceive
    \/ HostReceive

SpecScroll == InitScroll /\ [][NextScroll]_vars

(***************************************************************************)
(* Steps the properties speak about.                                       *)
(***************************************************************************)
\* the webview handles a setLogContent message in this step
SetLogContentStep ==
    /\ panelOpen
    /\ h2v # << >>
    /\ Head(h2v).command = "setLogContent"
    /\ h2v' = Tail(h2v)

\* the host posts a filesChanged message in this step
FilesChangedPosted ==
    /\ Len(h2v') = Len(h2v) + 1
    /\ SubSeq(h2v', 1, Len(h2v)) = h2v
    /\ h2v'[Len(h2v')].command = "filesChanged"

NoDuplicates(s) == \A i, j \in 1..Len(s) : s[i] = s[j] => i = j

\* what the webview holds for a log before a message is handled
CachedContent(logName) == IF Has(logContents, logName) THEN logContents[logName] ELSE << >>
RecordedLineCount(logName) ==
    IF Has(logLineCounts, logName) THEN logLineCounts[logName] ELSE 0

(***************************************************************************)
(* C1.  Debounced content-change batch: while the panel is open, pending   *)
(* names always have a flush timer armed; a filesChanged message is posted *)
(* only when DEBOUNCE_DELAY has elapsed since the last matching event, it  *)
(* lists exactly the distinct names of the matching events since the       *)
(* previous flush (at least one name, none twice), and the pending set is  *)
(* empty afterwards, so a burst gives one batch and no second one until a  *)
(* new matching event arrives.                                             *)
(***************************************************************************)
C1_FlushScheduled ==
    (panelOpen /\ pendingFileChanges # << >>) => fileChangeTimer # NoTimer

C1_FlushStep ==
    FilesChangedPosted =>
        LET filenames == h2v'[Len(h2v')].filenames
        IN  /\ sinceLastChange >= DEBOUNCE_DELAY
            /\ burstNames # {}
            /\ Range(filenames) = burstNames
            /\ NoDuplicates(filenames)
            /\ pendingFileChanges' = << >>
            /\ burstNames' = {}

C1_DebouncedBatch == [](C1_FlushScheduled) /\ [][C1_FlushStep]_vars

\* a batch {a.log, b.log} has been posted after three watcher events
C1_Witness ==
    /\ watchOps = 3
    /\ pendingFileChanges = << >>
    /\ \E i \in 1..Len(h2v) :
           /\ h2v[i].command = "filesChanged"
           /\ Range(h2v[i].filenames) = { LOG_A, LOG_B }

(***************************************************************************)
(* C2.  Handling setLogContent for the active log renders incrementally    *)
(* (AppendRender) exactly when the cached content is non-empty, the new    *)
(* content starts with it, the new line count exceeds the recorded line    *)
(* count and the recorded count is positive; otherwise it renders the      *)
(* whole new content (FullRender).                                         *)
(***************************************************************************)
C2_AppendCondition(message) ==
    LET prev  == CachedContent(message.logName)
        count == RecordedLineCount(message.logName)
    IN  /\ prev # << >>
        /\ Len(prev) <= Len(message.content)
        /\ \A i \in 1..Len(prev) : message.content[i] = prev[i]
        /\ Len(Split(message.content, NL)) > count
        /\ count > 0

C2_RenderStep ==
    (SetLogContentStep /\ Head(h2v).logName = activeLog) =>
        /\ (render'.kind = "append") <=> C2_AppendCondition(Head(h2v))
        /\ ~C2_AppendCondition(Head(h2v)) =>
               render' = [ kind |-> "full", content |-> Head(h2v).content ]

C2_AppendIffPrefixGrowth == [][C2_RenderStep]_vars

\* an incremental render has happened
C2_Witness == render.kind = "append"

(***************************************************************************)
(* C3.  When an incremental render happens, its region is the split of the *)
(* new content from position prevLineCount (index prevLineCount - 1) to    *)
(* the end, its start line number is the recorded line count, and every    *)
(* span it adds to the display carries the line's 1-based position in the  *)
(* new content.  For the cached content L1\nL2\n (recorded count 3) and    *)
(* the new content L1\nL2\nL3\n the region is the two split entries L3 and *)
(* the empty entry after the last terminator, numbered 3 and 4.            *)
(***************************************************************************)
C3_AppendedSpans == SubSeq(display'.lines, Len(display.lines) + 1, Len(display'.lines))

C3_RegionStep ==
    (SetLogContentStep /\ Head(h2v).logName = activeLog /\ render'.kind = "append") =>
        LET newLines == Split(Head(h2v).content, NL)
            count    == RecordedLineCount(activeLog)
        IN  /\ render'.start = count
            /\ Len(render'.lines) = Len(newLines) - count + 1
            /\ \A i \in 1..Len(render'.lines) :
                   render'.lines[i] = newLines[count + i - 1]
            /\ Len(display'.lines) >= Len(display.lines)
            /\ \A i \in 1..Len(C3_AppendedSpans) :
                   /\ C3_AppendedSpans[i].num \in count..Len(newLines)
                   /\ C3_AppendedSpans[i].text = newLines[C3_AppendedSpans[i].num]

C3_ExampleCase ==
    /\ SetLogContentStep
    /\ Head(h2v).logName = activeLog
    /\ CachedContent(activeLog) = AllContents[1]
    /\ RecordedLineCount(activeLog) = Len(Split(AllContents[1], NL))
    /\ Head(h2v).content = AllContents[1] \o LINE_INF \o << NL >>

C3_ExampleStep ==
    C3_ExampleCase =>
        /\ render'.kind = "append"
        /\ render'.start = 3
        /\ render'.lines = << LINE_INF, << >> >>
        /\ C3_AppendedSpans = << [ num |-> 3, cls |-> "log-info", text |-> LINE_INF ],
                                 [ num |-> 4, cls |-> "log-info", text |-> << >> ] >>

\* the claim as stated: in the example the region is exactly the line L3
C3_ExampleExactlyL3Step ==
    C3_ExampleCase =>
        /\ render'.kind = "append"
        /\ render'.start = 3
        /\ render'.lines = << LINE_INF >>

C3_AppendCoversExactlyL3 == [][C3_RegionStep /\ C3_ExampleExactlyL3Step]_vars

C3_AppendRegion == [][C3_RegionStep /\ C3_ExampleStep]_vars

\* the example has been rendered incrementally: L3 appended from line 3
C3_Witness ==
    /\ render.kind = "append"
    /\ render.start = 3
    /\ render.lines[1] = LINE_INF
    /\ activeLog # << >>
    /\ CachedContent(activeLog) = AllContents[2]

(***************************************************************************)
(* C4.  After every setLogContent for a log, active or not, the cached     *)
(* content is the message content and the recorded line count is the       *)
(* number of lines of that content.                                        *)
(***************************************************************************)
C4_StateUpdatedStep ==
    SetLogContentStep =>
        LET message == Head(h2v)
        IN  /\ Has(logContents', message.logName)
            /\ logContents'[message.logName] = message.content
            /\ Has(logLineCounts', message.logName)
            /\ logLineCounts'[message.logName] = Len(Split(message.content, NL))

C4_ContentStateAlwaysUpdated == [][C4_StateUpdatedStep]_vars

(***************************************************************************)
(* C5.  A setLogContent for the active log whose content is identical to   *)
(* the cached content is rendered in full, never incrementally.            *)
(***************************************************************************)
C5_IdenticalStep ==
    ( /\ SetLogContentStep
      /\ Head(h2v).logName = activeLog
      /\ Has(logContents, activeLog)
      /\ logContents[activeLog] = Head(h2v).content ) =>
        render'.kind = "full"

C5_IdenticalContentFullRender == [][C5_IdenticalStep]_vars

(***************************************************************************)
(* C6.  A setLogContent for a name that is not in allLogs when it is       *)
(* delivered is ignored: no cached content, no rendering, no change of the *)
(* registry.                                                               *)
(***************************************************************************)
C6_StaleStep ==
    (SetLogContentStep /\ ~Includes(allLogs, Head(h2v).logName)) =>
        UNCHANGED << logContents, logLineCounts, display, allLogs, pinnedLogs, activeLog >>

C6_StaleContentIgnored == [][C6_StaleStep]_vars

(***************************************************************************)
(* C7.  Content cached under a log name was read from the current session: *)
(* content of log X of session A is never held as log X of another         *)
(* current session B.                                                      *)
(***************************************************************************)
C7_ContentOfCurrentSession ==
    \A logName \in DOMAIN logContents : contentFrom[logName] = currentSession

(***************************************************************************)
(* C8.  pinnedLogs has no duplicates and every pinned name is in allLogs.  *)
(***************************************************************************)
C8_PinnedWithinAllLogs ==
    /\ NoDuplicates(pinnedLogs)
    /\ Range(pinnedLogs) \subseteq Range(allLogs)

(***************************************************************************)
(* C9.  activeLog is empty or a member of allLogs.                         *)
(***************************************************************************)
C9_ActiveWithinAllLogs == activeLog = << >> \/ Includes(allLogs, activeLog)

(***************************************************************************)
(* C10.  Filter entries, cached contents and recorded line counts exist    *)
(* only for names in allLogs.                                              *)
(***************************************************************************)
C10_StateOnlyForKnownLogs ==
    (DOMAIN logFilters \cup DOMAIN logContents \cup DOMAIN logLineCounts)
        \subseteq Range(allLogs)

(***************************************************************************)
(* Registry steps.                                                         *)
(***************************************************************************)
\* the webview handles a setSessionLogs message in this step
SetSessionLogsStep ==
    /\ panelOpen
    /\ h2v # << >>
    /\ Head(h2v).command = "setSessionLogs"
    /\ h2v' = Tail(h2v)

\* the log names of the getLogContent requests the webview posts in this step
RequestedNames ==
    LET posted == SubSeq(v2h', Len(v2h) + 1, Len(v2h'))
    IN  [ i \in 1..Len(posted) |-> posted[i].logName ]

(***************************************************************************)
(* C11.  Handling setSessionLogs deletes the filter, the cached content    *)
(* and the recorded line count of every name that was in allLogs and is    *)
(* not in the new list and unpins it, and leaves the filter, content, line *)
(* count and pin status of every name in both lists unchanged.             *)
(***************************************************************************)
C11_Forgotten(logName) ==
    /\ ~Has(logFilters', logName)
    /\ ~Has(logContents', logName)
    /\ ~Has(logLineCounts', logName)
    /\ ~Includes(pinnedLogs', logName)

C11_Kept(logName) ==
    /\ Has(logFilters, logName) =>
           Has(logFilters', logName) /\ logFilters'[logName] = logFilters[logName]
    /\ Has(logContents, logName) =>
           Has(logContents', logName) /\ logContents'[logName] = logContents[logName]
    /\ Has(logLineCounts, logName) =>
           Has(logLineCounts', logName)
           /\ logLineCounts'[logName] = logLineCounts[logName]
    /\ Includes(pinnedLogs', logName) <=> Includes(pinnedLogs, logName)

C11_SetLogsStep ==
    SetSessionLogsStep =>
        \A logName \in Range(allLogs) :
            IF Includes(Head(h2v).logs, logName)
            THEN C11_Kept(logName) ELSE C11_Forgotten(logName)

C11_RemovedLogsForgotten == [][C11_SetLogsStep]_vars

(***************************************************************************)
(* C12.  After setSessionLogs: when the previous activeLog was empty or is *)
(* not in the new list, activeLog is the first name of the new list, or    *)
(* empty when the list is empty; otherwise activeLog is unchanged.         *)
(***************************************************************************)
C12_SetLogsStep ==
    SetSessionLogsStep =>
        IF activeLog = << >> \/ ~Includes(Head(h2v).logs, activeLog)
        THEN activeLog' = (IF Head(h2v).logs = << >> THEN << >> ELSE Head(h2v).logs[1])
        ELSE activeLog' = activeLog

C13_Added == SelectSeq(Head(h2v).logs, LAMBDA log : ~Includes(allLogs, log))

C13_SelectsFirst ==
    /\ Head(h2v).logs # << >>
    /\ activeLog = << >> \/ ~Includes(Head(h2v).logs, activeLog)

C13_SetLogsStep ==
    SetSessionLogsStep =>
        RequestedNames =
            C13_Added \o (IF C13_SelectsFirst /\ ~Truthy(logContents, Head(h2v).logs[1])
                          THEN << Head(h2v).logs[1] >> ELSE << >>)

C13_RequestsForNewOrUncached == [][C13_SetLogsStep]_vars

\* the statement without the selection: requests only for names that are new
C13_OnlyNewStep ==
    SetSessionLogsStep =>
        \A i \in 1..Len(RequestedNames) :
            /\ Includes(Head(h2v).logs, RequestedNames[i])
            /\ ~Includes(allLogs, RequestedNames[i])

C13_RequestsOnlyForNew == [][C13_OnlyNewStep]_vars

\* the known log b.log was selected after a.log's removal and requested again
C13_Witness ==
    /\ Has(logLineCounts, LOG_A)
    /\ allLogs = << LOG_B >>
    /\ activeLog = LOG_B
    /\ v2h # << >>
    /\ v2h[Len(v2h)] = [ command |-> "getLogContent", session |-> ROOT,
                         logName |-> LOG_B ]

(***************************************************************************)
(* C14.  togglePin(name) removes name from pinnedLogs when it is pinned    *)
(* and appends it at the end otherwise; the other pinned names keep their  *)
(* relative order, and allLogs and activeLog are unchanged.  Every step    *)
(* of the user that changes pinnedLogs within a session is such a toggle.  *)
(***************************************************************************)
C14_Others(pinned, logName) == SelectSeq(pinned, LAMBDA log : log # logName)

C14_Toggled(before, after, logName) ==
    IF Includes(before, logName)
    THEN ~Includes(after, logName) /\ after = C14_Others(before, logName)
    ELSE after = before \o << logName >>

C14_TogglePinFunction ==
    \A logName \in LogNames :
        /\ C14_Toggled(pinnedLogs, togglePin(View, logName).pinnedLogs, logName)
        /\ togglePin(View, logName).allLogs = allLogs
        /\ togglePin(View, logName).activeLog = activeLog

C14_PinStep ==
    (userOps' = userOps + 1 /\ currentSession' = currentSession
     /\ pinnedLogs' # pinnedLogs) =>
        /\ \E logName \in LogNames : C14_Toggled(pinnedLogs, pinnedLogs', logName)
        /\ allLogs' = allLogs
        /\ activeLog' = activeLog

C14_TogglePin == [](C14_TogglePinFunction) /\ [][C14_PinStep]_vars

\* b.log was pinned first and a.log after it
C14_Witness == pinnedLogs = << LOG_B, LOG_A >> /\ allLogs = << LOG_A, LOG_B >>

(***************************************************************************)
(* C15.  The visual order lists every name of allLogs exactly once and no  *)
(* other name: first the pinned names that are in allLogs, in pinned       *)
(* order, then the names that are not pinned, in allLogs order.            *)
(***************************************************************************)
C15_Ordered(o) ==
    \A i, j \in 1..Len(o) :
        i < j =>
            /\ Includes(pinnedLogs, o[j]) =>
                   /\ Includes(pinnedLogs, o[i])
                   /\ IndexOf(pinnedLogs, o[i]) < IndexOf(pinnedLogs, o[j])
            /\ (~Includes(pinnedLogs, o[i]) /\ ~Includes(pinnedLogs, o[j])) =>
                   IndexOf(allLogs, o[i]) < IndexOf(allLogs, o[j])

C15_VisualOrder ==
    /\ Range(getLogsInVisualOrder(View)) = Range(allLogs)
    /\ NoDuplicates(getLogsInVisualOrder(View))
    /\ C15_Ordered(getLogsInVisualOrder(View))

\* the quick picker lists the pinned b.log before a.log
C15_Witness ==
    /\ pinnedLogs = << LOG_B >>
    /\ allLogs = << LOG_A, LOG_B >>
    /\ pickerOpen
    /\ pickerFilteredLogs = << LOG_B, LOG_A >>

(***************************************************************************)
(* C16.  A shown line that holds closed pipe or bracket tokens, all of one *)
(* alias group, carries the tag of that group, whatever the letter case of *)
(* the keyword and the whitespace inside the delimiters; a line that holds *)
(* no closed token (a bare keyword, an unclosed delimiter) carries no tag. *)
(***************************************************************************)
C16_Tags == Range(defaultSeverities)
C16_AliasGroup(tag) ==
    CASE tag = "log-error"   -> { K_ERROR, K_ERR, K_FATAL, K_CRITICAL, K_EXCEPTION }
      [] tag = "log-warn"    -> { K_WARN, K_WARNING }
      [] tag = "log-info"    -> { K_INFO }
      [] tag = "log-debug"   -> { K_DEBUG, K_DBG }
      [] tag = "log-trace"   -> { K_TRACE, K_TRC }
      [] tag = "log-verbose" -> { K_VERBOSE, K_VERB, K_VRB }
\* line[i..j] is a token of the alias group of tag: an opening delimiter, the
\* keyword with optional whitespace around it, the closing delimiter
C16_IsToken(line, i, j, open, close, tag) ==
    /\ i < j
    /\ line[i] = open
    /\ line[j] = close
    /\ ToUpper(Trim(SubSeq(line, i + 1, j - 1))) \in C16_AliasGroup(tag)
C16_HasToken(line, open, close, tag) ==
    \E i, j \in 1..Len(line) : C16_IsToken(line, i, j, open, close, tag)
C16_TagsOf(line) ==
    { tag \in C16_Tags : C16_HasToken(line, "|", "|", tag) \/ C16_HasToken(line, "[", "]", tag) }
C16_Classified(span) ==
    /\ C16_TagsOf(span.text) = {} => span.cls = ""
    /\ \A tag \in C16_Tags : C16_TagsOf(span.text) = { tag } => span.cls = tag

C17_Leftmost(line, open, close, tag) ==
    \E i, j \in 1..Len(line) :
        /\ C16_IsToken(line, i, j, open, close, tag)
        /\ \A k, l \in 1..Len(line) :
               (\E other \in C16_Tags : C16_IsToken(line, k, l, open, close, other)) => i <= k
C17_HasShape(line, open, close) == \E tag \in C16_Tags : C16_HasToken(line, open, close, tag)
C17_Prioritised(span) ==
    IF C17_HasShape(span.text, "|", "|")
    THEN C17_Leftmost(span.text, "|", "|", span.cls)
    ELSE C17_HasShape(span.text, "[", "]") => C17_Leftmost(span.text, "[", "]", span.cls)

C17_PipeFirstThenLeftmost ==
    \A n \in 1..Len(display.lines) :
        /\ display.lines[n].cls # "" => display.lines[n].cls \in C16_Tags
        /\ (C17_HasShape(display.lines[n].text, "|", "|")
                \/ C17_HasShape(display.lines[n].text, "[", "]")) => display.lines[n].cls # ""
        /\ C17_Prioritised(display.lines[n])

\* "[ERR] |INFO|" is shown as info: the pipe token stands after the bracket token
C17_Witness ==
    /\ Len(display.lines) = 1
    /\ display.lines[1].text
           = TokenOf(<< "[", "]" >>, << >>, K_ERR, << >>) \o SP
             \o TokenOf(<< "|", "|" >>, << >>, K_INFO, << >>)
    /\ display.lines[1].cls = "log-info"

(***************************************************************************)
(* C18.  A shown line that carries a key-value token level=KEYWORD has the *)
(* tag of that keyword: ERROR and ERR give log-error, WARN log-warn, INFO  *)
(* log-info, DEBUG log-debug.                                              *)
(***************************************************************************)
C18_KeyValueTag(line) ==
    { tag \in C16_Tags :
          \E keyword \in C16_AliasGroup(tag) \cap { K_ERROR, K_ERR, K_WARN, K_INFO, K_DEBUG } :
              line = KeyValueLine(keyword) }

C18_KeyValueClassified ==
    \A n \in 1..Len(display.lines) :
        \A tag \in C18_KeyValueTag(display.lines[n].text) : display.lines[n].cls = tag

(***************************************************************************)
(* C19.  In a render pass a line has its own class when it has one, and    *)
(* otherwise the class of the nearest earlier line of the pass that has    *)
(* one, shown or not, or else the carry-in class; a line whose class is    *)
(* not empty and not enabled is not shown.  Of "[ERROR] boom" and its two  *)
(* "at frame" lines none is shown when only error is disabled, and all     *)
(* three are shown as errors when only error is enabled.                   *)
(***************************************************************************)
\* own[i] is the class of line i by itself
C19_Own(lines) == [ i \in 1..Len(lines) |-> getSeverityClass(lines[i]) ]
C19_Classified(own, i) == { k \in 1..i : own[k] # "" }
C19_Nearest(own, i) ==
    CHOOSE k \in C19_Classified(own, i) : \A l \in C19_Classified(own, i) : l <= k
C19_Severity(own, carry) ==
    [ i \in 1..Len(own) |->
          IF C19_Classified(own, i) = {} THEN carry ELSE own[C19_Nearest(own, i)] ]
C19_Pass(severity, filter, spans) ==
    \A i \in 1..Len(severity) :
        /\ (severity[i] # "" /\ ~Includes(filter.severities, severity[i]))
               => ~\E n \in 1..Len(spans) : spans[n].num = i
        /\ \A n \in 1..Len(spans) : spans[n].num = i => spans[n].cls = severity[i]
\* the active log has been rendered from its cached content
C19_Rendered == Truthy(logContents, activeLog) /\ Has(logFilters, activeLog)
C19_Example ==
    (logContents[activeLog] = Join(LINES_STACK, NL) /\ logFilters[activeLog].text = << >>) =>
        /\ Range(logFilters[activeLog].severities) = Range(defaultSeverities) \ { "log-error" }
               => display = EmptyState("No matching log lines")
        /\ logFilters[activeLog].severities = << "log-error" >>
               => display.lines = [ i \in 1..3 |-> [ num |-> i, cls |-> "log-error",
                                                      text |-> LINES_STACK[i] ] ]

C19_SeverityInheritance ==
    C19_Rendered =>
        /\ \A own \in { C19_Own(Split(logContents[activeLog], NL)) } :
               /\ \A severity \in { C19_Severity(own, "") } :
                      C19_Pass(severity, logFilters[activeLog], display.lines)
               /\ \A carry \in { "log-debug" } :
                      \A severity \in { C19_Severity(own, carry) } :
                          C19_Pass(severity, logFilters[activeLog],
                                   formatNewLines(logFilters[activeLog],
                                                  logContents[activeLog], 1, carry))
        /\ C19_Example

\* the stack trace is shown with every severity but error switched off
C19_Witness ==
    /\ C19_Rendered
    /\ logContents[activeLog] = Join(LINES_STACK, NL)
    /\ logFilters[activeLog] = [ text |-> << >>, severities |-> << "log-error" >> ]
    /\ Len(display.lines) = 3

(***************************************************************************)
(* C20.  A line is shown exactly when its class is empty or enabled and,   *)
(* for a non-empty filter text, the line contains the text, letter case    *)
(* ignored; a line with no class of its own and none inherited is shown    *)
(* exactly when it passes the text rule; the shown lines are in the order  *)
(* of the content and numbered by their 1-based position in it.            *)
(***************************************************************************)
C20_TextAt(line, offset, text) ==
    /\ offset + Len(text) <= Len(line)
    /\ \A k \in 1..Len(text) : UpperChar(line[offset + k]) = UpperChar(text[k])
C20_PassText(line, filter) ==
    filter.text = << >> \/ \E offset \in 0..Len(line) : C20_TextAt(line, offset, filter.text)
C20_PassSeverity(severity, i, filter) ==
    severity[i] = "" \/ Includes(filter.severities, severity[i])
C20_IsShown(spans, i) == \E n \in 1..Len(spans) : spans[n].num = i
C20_Pass(lines, severity, filter, spans) ==
    /\ \A i \in 1..Len(lines) :
           /\ C20_IsShown(spans, i)
                  <=> (C20_PassSeverity(severity, i, filter) /\ C20_PassText(lines[i], filter))
           /\ severity[i] = ""
                  => (C20_IsShown(spans, i) <=> C20_PassText(lines[i], filter))
    /\ \A n \in 1..Len(spans) :
           /\ spans[n].num \in 1..Len(lines)
           /\ spans[n].text = lines[spans[n].num]
    /\ \A n, m \in 1..Len(spans) : n < m => spans[n].num < spans[m].num

C20_ShownLines ==
    C19_Rendered =>
        \A lines \in { Split(logContents[activeLog], NL) } :
            \A severity \in { C19_Severity(C19_Own(lines), "") } :
                C20_Pass(lines, severity, logFilters[activeLog], display.lines)

\* with the text "AT" and error switched off only "AT z", line 5, is shown: "up"
\* has no "at" in it and "at y" is part of the error above it
C20_Witness ==
    /\ C19_Rendered
    /\ logContents[activeLog] = Join(LINES_MIXED, NL)
    /\ logFilters[activeLog].text = <<"A", "T">>
    /\ ~Includes(logFilters[activeLog].severities, "log-error")
    /\ Includes(logFilters[activeLog].severities, "log-info")
    /\ display.lines = << [ num |-> 5, cls |-> "log-info", text |-> LINES_MIXED[5] ] >>

(***************************************************************************)
(* C21.  A full render of empty content shows "No content"; a full render  *)
(* of content of which no line passes the filter shows "No matching log    *)
(* lines"; any other full render shows at least one line and no signal.    *)
(* The log area never holds a signal together with lines: lines that an    *)
(* incremental render adds replace the signal.                             *)
(***************************************************************************)
C21_SomeLinePasses(lines, severity, filter) ==
    \E i \in 1..Len(lines) :
        C20_PassSeverity(severity, i, filter) /\ C20_PassText(lines[i], filter)
C21_Result(content, filter, d) ==
    IF content = << >> THEN d = EmptyState("No content")
    ELSE \A lines \in { Split(content, NL) } :
             IF C21_SomeLinePasses(lines, C19_Severity(C19_Own(lines), ""), filter)
             THEN d.empty = "" /\ d.lines # << >>
             ELSE d = EmptyState("No matching log lines")
\* a full render: of a delivered content, or of the cached content after a click
C21_FullRenderStep ==
    /\ (SetLogContentStep /\ Head(h2v).logName = activeLog /\ render'.kind = "full")
           => C21_Result(Head(h2v).content, getLogFilter(logFilters', activeLog), display')
    /\ (severityButtons' # severityButtons /\ Truthy(logContents, activeLog))
           => C21_Result(logContents[activeLog], logFilters'[activeLog], display')
C21_NeverBoth == (display.empty = "") <=> (display.lines # << >>)

C21_WitnessAppend ==
    /\ display = EmptyState("No matching log lines")
    /\ render.kind = "append"

(***************************************************************************)
(* C22.  Rendering the same content under the same filter a second time    *)
(* gives the same log area; a render changes neither the text nor the      *)
(* severities of a filter that exists, and a filter that did not exist is, *)
(* when it is created, the default one: no text, all six severities.       *)
(***************************************************************************)
C22_SameFilters(before, after) ==
    \A logName \in DOMAIN before : Has(after, logName) /\ after[logName] = before[logName]
C22_Created(before, after) ==
    \A logName \in DOMAIN after \ DOMAIN before :
        /\ after[logName].text = << >>
        /\ after[logName].severities
               = << "log-error", "log-warn", "log-info", "log-debug", "log-trace", "log-verbose" >>
C22_Twice(once, twice) ==
    /\ twice.display = once.display
    /\ twice.logFilters = once.logFilters
    /\ C22_SameFilters(logFilters, once.logFilters)
    /\ C22_Created(logFilters, once.logFilters)
\* formatLogContent applied twice to the cached content of every log
C22_Idempotent ==
    \A logName \in DOMAIN logContents :
        \A once \in { fullRender([ View EXCEPT !.activeLog = logName ], logName,
                                 logContents[logName]) } :
            C22_Twice(once, fullRender(once, logName, logContents[logName]))
\* the renders of the webview
C22_RenderStep ==
    (SetLogContentStep \/ severityButtons' # severityButtons) =>
        /\ C22_Created(logFilters, logFilters')
        /\ SetLogContentStep => C22_SameFilters(logFilters, logFilters')
        /\ \A logName \in DOMAIN logFilters :
               Has(logFilters', logName) /\ logFilters'[logName].text = logFilters[logName].text
C22_FilterCreatedStep == C22_Created(logFilters, logFilters')

C22_ApplyIdempotent ==
    /\ [](C22_Idempotent)
    /\ [][C22_RenderStep]_vars
    /\ [][C22_FilterCreatedStep]_vars

\* the error line has been rendered twice under a filter with error switched off
C22_Witness ==
    /\ activeLog = LOG_A
    /\ Has(logFilters, LOG_A)
    /\ ~Includes(logFilters[LOG_A].severities, "log-error")
    /\ Truthy(logContents, LOG_A)
    /\ render.kind = "full"
    /\ display = EmptyState("No matching log lines")
    /\ h2v = << >>
    /\ v2h = << >>

(***************************************************************************)
(* C23.  Every watcher event of the existing log directory, for a log file *)
(* or not, arms the listing-refresh timer anew with twice the debounce     *)
(* delay.  setSessions and refreshCurrentSession are posted together, only *)
(* when that long has passed since the last event, and then no refresh is  *)
(* pending until the next event; a pending refresh is eventually posted,   *)
(* unless the webview has left no room for it in the message channel.      *)
(***************************************************************************)
C23_WatchEventStep == watchOps' = watchOps + 1 /\ fileWatcher /\ logDirExists
C23_RearmStep ==
    C23_WatchEventStep =>
        /\ sessionRefreshTimer' = 2 * DEBOUNCE_DELAY
        /\ refreshTimers' = 1
C23_Posts(command) ==
    \E i \in (Len(h2v) + 1)..Len(h2v') : h2v'[i].command = command
C23_RefreshPosted ==
    /\ Len(h2v') = Len(h2v) + 2
    /\ SubSeq(h2v', 1, Len(h2v)) = h2v
    /\ h2v'[Len(h2v) + 1].command = "setSessions"
    /\ h2v'[Len(h2v) + 2].command = "refreshCurrentSession"
C23_RefreshStep ==
    (Len(h2v') > Len(h2v) /\ C23_Posts("refreshCurrentSession")) =>
        /\ C23_RefreshPosted
        /\ sinceLastEvent >= 2 * DEBOUNCE_DELAY
        /\ sessionRefreshTimer' = NoTimer
        /\ refreshTimers' = 0
\* between two refreshes there is a watcher event
C23_QuietStep ==
    (sessionRefreshTimer = NoTimer /\ ~C23_WatchEventStep) =>
        ~(Len(h2v') > Len(h2v) /\ C23_Posts("refreshCurrentSession"))
C23_Pending == panelOpen /\ sessionRefreshTimer # NoTimer

C23_RefreshOncePerQuietPeriod ==
    /\ [][C23_RearmStep]_vars
    /\ [][C23_RefreshStep]_vars
    /\ [][C23_QuietStep]_vars
    /\ [](C23_Pending => <>(~C23_Pending \/ Len(h2v) + 2 > MaxChan))

\* three events, the last of them for a file that is no log, and one refresh
C23_Witness ==
    /\ watchOps = 3
    /\ sessionRefreshTimer = NoTimer
    /\ sinceLastEvent = 2 * DEBOUNCE_DELAY
    /\ panelOpen
    /\ burstNames = {}
    /\ \E i \in 1..Len(h2v) : h2v[i].command = "refreshCurrentSession"

(***************************************************************************)
(* C24.  At most one content-flush timeout and at most one listing-refresh *)
(* timeout are pending at any time, and each is the one the host holds the *)
(* handle of: arming cancels the timeout armed before.  When a batch has   *)
(* been flushed no flush is left pending.                                  *)
(***************************************************************************)
C24_AtMostOne ==
    /\ flushTimers \in { 0, 1 }
    /\ refreshTimers \in { 0, 1 }
    /\ (flushTimers = 1) <=> (fileChangeTimer # NoTimer)
    /\ (refreshTimers = 1) <=> (sessionRefreshTimer # NoTimer)
C24_FlushStep == FilesChangedPosted => flushTimers' = 0

C24_OnePendingTimerPerKind == [](C24_AtMostOne) /\ [][C24_FlushStep]_vars

\* a second event has armed both timers again
C24_Witness ==
    /\ watchOps = 2
    /\ pendingFileChanges = << LOG_A, LOG_B >>
    /\ sinceLastChange = 0
    /\ fileChangeTimer = DEBOUNCE_DELAY
    /\ sessionRefreshTimer = 2 * DEBOUNCE_DELAY
    /\ flushTimers = 1
    /\ refreshTimers = 1

(***************************************************************************)
(* C25.  When the log directory watcher reports an error, or one of its    *)
(* events finds the log directory gone, the host sets the watching up      *)
(* again: with autoRefresh enabled exactly one watcher is active after the *)
(* handler, the directory watcher if the directory exists and the          *)
(* workspace root watcher otherwise; an event of the root watcher that     *)
(* finds the directory back moves the watching to the directory.           *)
(***************************************************************************)
C25_ErrorOrGoneStep == WatcherError \/ (~logDirExists /\ WatchEventFor(TXT_N))
C25_BackStep == logDirExists /\ RootWatchEvent
C25_OneWatcher ==
    /\ fileWatcher' # rootWatcher'
    /\ fileWatcher' = logDirExists'
C25_ReestablishStep ==
    ((C25_ErrorOrGoneStep \/ C25_BackStep) /\ autoRefresh) => C25_OneWatcher

C25_WatcherReestablished == [][C25_ReestablishStep]_vars

\* the directory was deleted and the event that found it gone was handled
C25_Witness ==
    /\ panelOpen /\ autoRefresh
    /\ fsOps = 1 /\ ~logDirExists
    /\ watchOps > 0
    /\ rootWatcher /\ ~fileWatcher
    /\ \E i \in 1..Len(h2v) :
           h2v[i] = [ command |-> "setSessions", sessions |-> << >>, hasRootLogs |-> FALSE ]

(***************************************************************************)
(* C26.  When the watched log directory has been deleted, the host has     *)
(* handled the deletion and the view has processed every message, the      *)
(* view's registry is reset: allLogs, pinnedLogs, activeLog and the        *)
(* cached contents are empty.                                              *)
(***************************************************************************)
C26_DeletionHandled ==
    /\ panelOpen
    /\ fsOps = 1 /\ ~logDirExists
    /\ rootWatcher /\ ~fileWatcher
    /\ sessionRefreshTimer = NoTimer
    /\ h2v = << >> /\ v2h = << >>

C26_RegistryReset ==
    C26_DeletionHandled =>
        /\ allLogs = << >>
        /\ pinnedLogs = << >>
        /\ activeLog = << >>
        /\ logContents = EmptyMap

(***************************************************************************)
(* C27.  The host answers each getLogContent message with at most one      *)
(* setLogContent message, for the requested name: exactly one, carrying    *)
(* the file's content, when the file exists, and none when it is missing.  *)
(* A missing file is no error and is not retried: the request is consumed, *)
(* the panel stays open and the host arms nothing.                         *)
(***************************************************************************)
C27_RequestStep ==
    /\ v2h # << >>
    /\ v2h' = Tail(v2h)
    /\ Head(v2h).command = "getLogContent"
C27_Answered(request, posted) ==
    IF logFileExists(request.session, request.logName)
    THEN /\ Len(posted) = 1
         /\ posted[1].command = "setLogContent"
         /\ posted[1].logName = request.logName
         /\ posted[1].content = files[request.session][request.logName]
    ELSE posted = << >>
C27_AnswerStep ==
    C27_RequestStep =>
        /\ Len(h2v') >= Len(h2v)
        /\ SubSeq(h2v', 1, Len(h2v)) = h2v
        /\ C27_Answered(Head(v2h), SubSeq(h2v', Len(h2v) + 1, Len(h2v')))
        /\ panelOpen'
        /\ UNCHANGED << hostVars, fsVars >>

C27_AtMostOneContentReply == [][C27_AnswerStep]_vars

\* the content of a log of the deleted directory was requested, the request was
\* consumed and nothing came back: the view is left waiting
C27_Witness ==
    /\ panelOpen
    /\ ~logDirExists
    /\ activeLog = LOG_A
    /\ ~Has(logContents, LOG_A)
    /\ display = EmptyState("Loading...")
    /\ v2h = << >> /\ h2v = << >>
    /\ sessionRefreshTimer = NoTimer

(***************************************************************************)
(* C28.  Handling a filesChanged batch, the view sends a getLogContent     *)
(* request if and only if activeLog is non-empty and is one of the batch's *)
(* names; it then sends exactly one request, for activeLog in the current  *)
(* session.  Changes of logs that are not active are not forwarded.        *)
(***************************************************************************)
C28_BatchStep ==
    /\ h2v # << >>
    /\ h2v' = Tail(h2v)
    /\ Head(h2v).command = "filesChanged"
C28_Forwarded(batch, sent) ==
    IF activeLog # << >> /\ \E i \in 1..Len(batch) : batch[i] = activeLog
    THEN sent = << [ command |-> "getLogContent", session |-> currentSession,
                     logName |-> activeLog ] >>
    ELSE sent = << >>
C28_ForwardStep ==
    C28_BatchStep =>
        /\ Len(v2h') >= Len(v2h)
        /\ SubSeq(v2h', 1, Len(v2h)) = v2h
        /\ C28_Forwarded(Head(h2v).filenames, SubSeq(v2h', Len(v2h) + 1, Len(v2h')))

C28_OnlyActiveLogForwarded == [][C28_ForwardStep]_vars

\* one event for the active log, its content already shown; the batch was flushed
\* and handled, the listing refresh is still to come: the request in the channel
\* is the one the batch caused
C28_Witness ==
    /\ watchOps = 1
    /\ activeLog = LOG_A
    /\ Has(logContents, LOG_A)
    /\ fileChangeTimer = NoTimer
    /\ sessionRefreshTimer = DEBOUNCE_DELAY
    /\ h2v = << >>
    /\ v2h = << [ command |-> "getLogContent", session |-> currentSession,
                  logName |-> LOG_A ] >>

(***************************************************************************)
(* C29.  Handling a content update (setLogContent or filesChanged) leaves  *)
(* the user's state as it was: activeLog, pinnedLogs and the text and the  *)
(* enabled severities of every existing filter.  On a full render with     *)
(* tail mode off the scroll position is restored to the value it had       *)
(* before the render.                                                      *)
(***************************************************************************)
C29_UpdateStep ==
    /\ h2v # << >>
    /\ h2v' = Tail(h2v)
    /\ Head(h2v).command \in { "setLogContent", "filesChanged" }
C29_FiltersKept ==
    \A name \in DOMAIN logFilters :
        /\ name \in DOMAIN logFilters'
        /\ logFilters'[name].text = logFilters[name].text
        /\ logFilters'[name].severities = logFilters[name].severities
C29_UserStateKept ==
    /\ activeLog' = activeLog
    /\ pinnedLogs' = pinnedLogs
    /\ C29_FiltersKept
C29_FullRenderStep ==
    /\ C29_UpdateStep
    /\ Head(h2v).command = "setLogContent"
    /\ Head(h2v).logName = activeLog
    /\ render'.kind = "full"
    /\ ~tailMode
C29_ScrollRestoredStep == C29_FullRenderStep => scrollTop' = scrollTop

C29_UpdateKeepsUserState ==
    /\ [][C29_UpdateStep => C29_UserStateKept]_vars
    /\ [][C29_ScrollRestoredStep]_vars

\* C29 as the code has it: the scroll position is restored as far as the new
\* content reaches; when the rendered content ends above the old position, the
\* position is the last one the new content has
C29_RowsAfter == IF display'.lines = << >> THEN 1 ELSE Len(display'.lines)
C29_ScrollRestoredWithinContentStep ==
    C29_FullRenderStep =>
        IF scrollTop + ViewportRows <= C29_RowsAfter
        THEN scrollTop' = scrollTop
        ELSE /\ scrollTop' < scrollTop
             /\ scrollTop' + ViewportRows >= C29_RowsAfter
             /\ scrollTop' >= 0

C29_UpdateKeepsUserStateWithinContent ==
    /\ [][C29_UpdateStep => C29_UserStateKept]_vars
    /\ [][C29_ScrollRestoredWithinContentStep]_vars

\* the log was scrolled down with errors filtered out, then rewritten and
\* rendered in full: the filter and the scroll position are the ones it had
C29_Witness ==
    /\ fsOps = 1
    /\ activeLog = LOG_A
    /\ Has(logContents, LOG_A) /\ logContents[LOG_A] = files[ROOT][LOG_A]
    /\ render = [ kind |-> "full", content |-> files[ROOT][LOG_A] ]
    /\ Has(logFilters, LOG_A) /\ logFilters[LOG_A].severities # defaultSeverities
    /\ scrollTop > 0
    /\ h2v = << >> /\ v2h = << >>

(***************************************************************************)
(* C30.  After any sequence of full and append renders of the active log   *)
(* the display holds at most one entry for each line number: including the *)
(* boundary line (index prevLineCount - 1) in an append region adds no     *)
(* second entry with a line number that is already displayed.              *)
(***************************************************************************)
C30_OneEntryPerLineNumber ==
    \A i, j \in 1..Len(display.lines) :
        display.lines[i].num = display.lines[j].num => i = j

(***************************************************************************)
(* C31.  When the logDirectory or filePattern setting changes, the host    *)
(* sets the watcher up again and posts resetState followed by setSessions, *)
(* in that order: the view clears its session, registry, contents and      *)
(* filters before it receives the session list of the new directory.       *)
(***************************************************************************)
C31_ResetThenSessions ==
    \A i \in 1..Len(h2v) :
        h2v[i].command = "resetState" =>
            i < Len(h2v) /\ h2v[i + 1].command = "setSessions"
C31_ConfigStep ==
    ConfigLogDirectory =>
        /\ Len(h2v') = Len(h2v) + 2
        /\ SubSeq(h2v', 1, Len(h2v)) = h2v
        /\ h2v'[Len(h2v) + 1].command = "resetState"
        /\ h2v'[Len(h2v) + 2].command = "setSessions"
        /\ fileWatcher' = (autoRefresh /\ logDirExists)
        /\ rootWatcher' = (autoRefresh /\ ~logDirExists)
\* no log keeps a filter; updateFilterUI leaves the default filter of the empty name
C31_FiltersCleared(filters) ==
    \A name \in DOMAIN filters : name = << >> /\ filters[name] = DefaultFilter
C31_ResetStep ==
    (h2v # << >> /\ h2v' = Tail(h2v) /\ Head(h2v).command = "resetState") =>
        /\ currentSession' = ""
        /\ activeLog' = << >>
        /\ pinnedLogs' = << >>
        /\ allLogs' = << >>
        /\ logContents' = EmptyMap
        /\ C31_FiltersCleared(logFilters')
        /\ h2v' # << >> /\ Head(h2v').command = "setSessions"

C31_ResetBeforeSessions ==
    /\ [](C31_ResetThenSessions)
    /\ [][C31_ConfigStep]_vars
    /\ [][C31_ResetStep]_vars

\* a log had been rendered, the setting changed, and the view has handled
\* resetState: everything is cleared and the session list is the next message
C31_Witness ==
    /\ userOps > 0
    /\ logLineCounts # EmptyMap
    /\ currentSession = ""
    /\ allLogs = << >> /\ activeLog = << >> /\ pinnedLogs = << >>
    /\ logContents = EmptyMap /\ C31_FiltersCleared(logFilters)
    /\ h2v # << >> /\ Head(h2v).command = "setSessions"

(***************************************************************************)
(* C32.  At any time at most one panel exists.  createOrShow creates a     *)
(* panel only when currentPanel is undefined and otherwise reveals the     *)
(* panel there is, creating none; dispose leaves currentPanel undefined,   *)
(* so that a later createOrShow creates a new panel.                       *)
(***************************************************************************)
C32_AtMostOne ==
    /\ panels \in { 0, 1 }
    /\ panelOpen <=> (panels = 1)
C32_CreateOrShowStep ==
    CreateOrShow =>
        IF panelOpen
        THEN UNCHANGED << panels, panelOpen, viewVars, v2h, h2v >>
        ELSE /\ panels' = panels + 1
             /\ panelOpen'
             /\ v2h' = << [ command |-> "getSessions" ] >>
C32_DisposeStep == (panelOpen /\ panels' < panels) => ~panelOpen'

C32_SinglePanel ==
    /\ [](C32_AtMostOne)
    /\ [][C32_CreateOrShowStep]_vars
    /\ [][C32_DisposeStep]_vars

\* createOrShow was called with a panel and without one, and the one panel has
\* loaded its log
C32_Witness ==
    /\ userOps = 2
    /\ panelOpen /\ panels = 1
    /\ activeLog = LOG_A /\ Has(logContents, LOG_A)
    /\ h2v = << >> /\ v2h = << >>

(***************************************************************************)
(* C33.  Every LogDataProvider operation maps a missing path or a failing  *)
(* file system call to its empty result and never raises: getSessions      *)
(* gives {sessions: [], hasRootLogs: false}, getLogs gives [] and, when    *)
(* only the stat of an entry fails, skips that entry and keeps the others, *)
(* getLogContent gives null.                                               *)
(***************************************************************************)
C33_Failing(call) ==
    CASE call.op = "getSessions" ->
             ~logDirExists \/ Fault("readdir", << >>) \in fsFaults
      [] call.op = "getLogs" ->
             ~logDirExists \/ Fault("readdir", << >>) \in fsFaults
      [] call.op = "getLogContent" ->
             \/ ~logDirExists
             \/ call.name \notin DOMAIN files[call.session]
             \/ Fault("readFile", << >>) \in fsFaults
C33_Empty(call) ==
    CASE call.op = "getSessions" -> [ sessions |-> << >>, hasRootLogs |-> FALSE ]
      [] call.op = "getLogs" -> << >>
      [] call.op = "getLogContent" -> Null
C33_Kept(call) ==
    { n \in DOMAIN files[call.session] :
        matchesFilePattern(n, filePattern) /\ Fault("stat", n) \notin fsFaults }
C33_Degraded(call) ==
    /\ ~call.result.raised
    /\ C33_Failing(call) => call.result.value = C33_Empty(call)
    /\ (call.op = "getLogs" /\ ~C33_Failing(call)) =>
           /\ Range(call.result.value) = C33_Kept(call)
           /\ Len(call.result.value) = Cardinality(C33_Kept(call))
C33_CallStep == (provided' # provided) => C33_Degraded(provided')

C33_ProviderNeverRaises == [][C33_CallStep]_vars

\* the stat of b.log fails: getLogs of the log directory gives a.log alone
C33_Witness ==
    /\ logDirExists
    /\ fsFaults = { Fault("stat", LOG_B) }
    /\ fsOps = 0
    /\ provided.op = "getLogs" /\ provided.session = ROOT
    /\ provided.result = Return(<< LOG_A >>)

(***************************************************************************)
(* C34.  matchesFilePattern(name, list) is true if and only if name        *)
(* matches, without regard to case and over the whole file name, at least  *)
(* one non-empty trimmed pattern of the comma-separated list, where *      *)
(* matches any run of characters, ? exactly one character and every other  *)
(* character itself; a list with no non-empty pattern matches nothing.     *)
(***************************************************************************)
RECURSIVE C34_Glob(_, _)
C34_Glob(pattern, name) ==
    IF pattern = << >> THEN name = << >>
    ELSE IF Head(pattern) = "*"
         THEN \E k \in 0..Len(name) : C34_Glob(Tail(pattern), SubSeq(name, k + 1, Len(name)))
    ELSE /\ name # << >>
         /\ Head(pattern) = "?" \/ ToLower(<< Head(pattern) >>) = ToLower(<< Head(name) >>)
         /\ C34_Glob(Tail(pattern), Tail(name))
C34_Patterns(list) ==
    { p \in { Trim(part) : part \in Range(Split(list, ",")) } : p # << >> }
C34_Matches(name, list) == \E p \in C34_Patterns(list) : C34_Glob(p, name)

C34_GlobSemantics ==
    provided.op = "matchesFilePattern" =>
        (provided.result <=> C34_Matches(provided.name, provided.patterns))

(***************************************************************************)
(* C35.  A log whose file changed while it was not the active log is       *)
(* refreshed when it is selected: selecting it sends a getLogContent       *)
(* request for it, so the view does not keep showing the content cached    *)
(* before the change.                                                      *)
(***************************************************************************)
\* the cached content of name is older than its file and no update is on its way
C35_ChangedSinceCached(name) ==
    /\ currentSession \in Sessions
    /\ Has(logContents, name)
    /\ Has(files[currentSession], name)
    /\ files[currentSession][name] # logContents[name]
    /\ \A i \in 1..Len(v2h) : ~(v2h[i].command = "getLogContent" /\ v2h[i].logName = name)
    /\ \A i \in 1..Len(h2v) : ~(h2v[i].command = "setLogContent" /\ h2v[i].logName = name)
C35_SelectStep(name) ==
    /\ userOps' = userOps + 1
    /\ activeLog # name
    /\ activeLog' = name
C35_Requested(name) ==
    \E i \in (Len(v2h) + 1)..Len(v2h') :
        v2h'[i].command = "getLogContent" /\ v2h'[i].logName = name
C35_RefreshStep ==
    \A name \in LogNames :
        (C35_SelectStep(name) /\ C35_ChangedSinceCached(name)) => C35_Requested(name)

C35_RefreshedWhenSelected == [][C35_RefreshStep]_vars

(***************************************************************************)
(* C36.  A setSessionLogs response whose session differs from the view's   *)
(* currentSession when it is delivered (the user changed the session while *)
(* the listing request was in flight) does not replace allLogs and causes  *)
(* no getLogContent request for the other session's log names.             *)
(***************************************************************************)
C36_StaleListingStep ==
    /\ h2v # << >>
    /\ h2v' = Tail(h2v)
    /\ Head(h2v).command = "setSessionLogs"
    /\ Head(h2v).session # currentSession
C36_NoRequest ==
    \A i \in (Len(v2h) + 1)..Len(v2h') : v2h'[i].command # "getLogContent"
C36_IgnoredStep == C36_StaleListingStep => (allLogs' = allLogs /\ C36_NoRequest)

C36_StaleListingIgnored == [][C36_IgnoredStep]_vars

(***************************************************************************)
(* C37.  Incremental rendering is equivalent to full rendering: after any  *)
(* sequence of selections and content updates, the lines displayed for the *)
(* active log (line number, text, severity) are exactly those a full       *)
(* render of the cached content with the current filter would display,     *)
(* also when the carry-in severity is read from the last displayed line.   *)
(***************************************************************************)
C37_Cached == activeLog # << >> /\ Has(logContents, activeLog) /\ logContents[activeLog] # << >>
C37_FullRender == formatLogContent(getLogFilter(logFilters, activeLog), logContents[activeLog])

C37_IncrementalEqualsFull == C37_Cached => display = C37_FullRender

(***************************************************************************)
(* C38.  Whenever the listing-refresh timer fires (setSessions and         *)
(* refreshCurrentSession are posted), the pending change set is empty and  *)
(* no content-flush timer is pending: every name recorded during the burst *)
(* was sent in a filesChanged batch before the burst's                     *)
(* refreshCurrentSession.                                                  *)
(***************************************************************************)
C38_RefreshFires ==
    /\ Len(h2v') = Len(h2v) + 2
    /\ h2v'[Len(h2v')].command = "refreshCurrentSession"
C38_AllFlushed ==
    /\ pendingFileChanges = << >>
    /\ fileChangeTimer = NoTimer
    /\ flushTimers = 0
    /\ burstNames = {}
C38_FlushedStep == C38_RefreshFires => C38_AllFlushed

C38_FlushBeforeRefresh == [][C38_FlushedStep]_vars

\* a burst for a.log: its batch is in the channel ahead of the refresh
C38_Witness ==
    /\ watchOps > 0
    /\ sessionRefreshTimer = NoTimer
    /\ pendingFileChanges = << >>
    /\ \E i, j \in 1..Len(h2v) :
           /\ i < j
           /\ h2v[i].command = "filesChanged"
           /\ h2v[j].command = "refreshCurrentSession"

(***************************************************************************)
(* The panel over a log directory that comes and goes, with watcher errors *)
(* and their retry, until it is disposed.                                  *)
(***************************************************************************)
NextDispose ==
    \/ WatchEventFor(LOG_A)
    \/ RootWatchEvent
    \/ RootWatcherError
    \/ WatcherRetryFire
    \/ DeleteLogDir
    \/ CreateLogDir
    \/ FileChangeTimerFire
    \/ SessionRefreshTimerFire
    \/ Tick
    \/ HostReceive
    \/ Dispose

SpecDispose == InitWatch /\ [][NextDispose]_vars

(***************************************************************************)
(* C39.  After dispose no watcher is active or is established again, and   *)
(* no filesChanged, setSessions or refreshCurrentSession message is        *)
(* posted, whatever timers were pending when dispose ran: the flush timer, *)
(* the listing-refresh timer and the 1000 ms retry after a root-watcher    *)
(* error.                                                                  *)
(***************************************************************************)
C39_NoWatcher == ~fileWatcher /\ ~rootWatcher
C39_Disposed == ~panelOpen => C39_NoWatcher
C39_SilentStep == ~panelOpen => h2v' = h2v

C39_QuietAfterDispose == [](C39_Disposed) /\ [][C39_SilentStep]_vars

(***************************************************************************)
(* The active log is rewritten under an active watcher, with the event     *)
(* loops of the host and of the webview running.                           *)
(***************************************************************************)
\* a writer changes a log file and the log directory watcher reports the change:
\* the fs.watch callback of an existing log directory
LogChanged(s, n) ==
    \E c \in Contents :
        /\ panelOpen /\ fileWatcher /\ logDirExists
        /\ fsOps < MaxFsOps
        /\ fsOps' = fsOps + 1
        /\ ~(Has(files[s], n) /\ files[s][n] = c)
        /\ files' = [ files EXCEPT ![s] = Put(files[s], n, c) ]
        /\ IF matchesFilePattern(n, filePattern)
           THEN /\ pendingFileChanges' = addPending(pendingFileChanges, n)
                /\ flushTimers' = clearThenSchedule(flushTimers, fileChangeTimer)
                /\ fileChangeTimer' = fileChangeDelay
                /\ sinceLastChange' = 0
                /\ burstNames' = burstNames \cup { n }
           ELSE UNCHANGED << pendingFileChanges, fileChangeTimer, flushTimers,
                             sinceLastChange, burstNames >>
        /\ refreshTimers' = clearThenSchedule(refreshTimers, sessionRefreshTimer)
        /\ sessionRefreshTimer' = sessionRefreshDelay
        /\ sinceLastEvent' = 0
        /\ UNCHANGED << viewVars, v2h, h2v, panelOpen, panels, retryTimers, fileWatcher,
                        rootWatcher, autoRefresh, logDirExists, fsFaults, provided,
                        userOps, watchOps >>

NextFollow ==
    \/ LogChanged(ROOT, LOG_A)
    \/ WatcherError
    \/ FileChangeTimerFire
    \/ SessionRefreshTimerFire
    \/ Tick
    \/ ViewReceive
    \/ HostReceive

\* the states in which a handler can run: the guards of SessionRefreshTimerFire,
\* HostReceive and ViewReceive.  Each of these steps shortens a timer list or a
\* channel, so the guard of X is ENABLED <<X>>_vars.
RefreshDue == panelOpen /\ sessionRefreshTimer = 0 /\ Len(h2v) + 2 <= MaxChan
HostCanReceive ==
    panelOpen /\ v2h # << >> /\ Len(h2v) + Len(hostReply(Head(v2h))) <= MaxChan
ViewCanReceive ==
    /\ panelOpen /\ h2v # << >>
    /\ Len(v2h) + Len(onMessage(View, Head(h2v)).out) <= MaxChan

\* the event loops run: a timeout that is due is called and a posted message is
\* handled (weak fairness of the five steps, ENABLED written as the guard for
\* the last three)
SpecFollowFair ==
    /\ InitScroll /\ [][NextFollow]_vars
    /\ WF_vars(Tick)
    /\ WF_vars(FileChangeTimerFire)
    /\ ([]<>(~RefreshDue) \/ []<><<SessionRefreshTimerFire>>_vars)
    /\ ([]<>(~HostCanReceive) \/ []<><<HostReceive>>_vars)
    /\ ([]<>(~ViewCanReceive) \/ []<><<ViewReceive>>_vars)

(***************************************************************************)
(* C40.  If the panel is not disposed, the active log stays active and in  *)
(* the registry, its file exists and raw change events eventually stop,    *)
(* then every change to the active log's file is eventually followed by a  *)
(* filesChanged batch containing it, a getLogContent request and a         *)
(* setLogContent update, so that the cached content of the active log      *)
(* eventually equals the file's final content; names pending when a        *)
(* watcher is torn down and re-established are still flushed.              *)
(***************************************************************************)
C40_Active ==
    /\ activeLog = LOG_A
    /\ currentSession \in Sessions
    /\ logFileExists(currentSession, activeLog)
C40_Synced ==
    /\ C40_Active
    /\ Has(logContents, activeLog)
    /\ logContents[activeLog] = files[currentSession][activeLog]
C40_Pending == C40_Active /\ Includes(pendingFileChanges, LOG_A)
C40_Batch ==
    /\ C40_Active
    /\ \E i \in 1..Len(h2v) :
           h2v[i].command = "filesChanged" /\ Includes(h2v[i].filenames, LOG_A)
C40_Request ==
    \E i \in 1..Len(v2h) :
        v2h[i].command = "getLogContent" /\ v2h[i].logName = LOG_A
C40_Update ==
    \E i \in 1..Len(h2v) :
        h2v[i].command = "setLogContent" /\ h2v[i].logName = LOG_A

C40_ChangeIsFollowed ==
    /\ C40_Pending ~> C40_Batch
    /\ C40_Batch ~> C40_Request
    /\ C40_Request ~> C40_Update
    /\ <>[]C40_Synced

\* the file was rewritten, the watcher was torn down and set up again, and the
\* webview has caught up with the new content
C40_Witness ==
    /\ fsOps > 0
    /\ watchOps > 0
    /\ pendingFileChanges = << >>
    /\ C40_Synced
    /\ logContents[LOG_A] # InitFilesScroll[ROOT][LOG_A]

=============================================================================
